---- MODULE Spec2Model ----
(***************************************************************************)
(* Model of the satellite-orbit viewer: the TLE loader                     *)
(* (src/src/utils/celestrakLoader.js) and the GlobeViewer component        *)
(* (src/src/App.jsx): record cache, freshness, simulation clock,           *)
(* selection.                                                              *)
(*                                                                         *)
(* Text is a sequence of characters.  A character is NL, SP, or a text     *)
(* atom: a string standing for a run of non-blank characters of one line.  *)
(***************************************************************************)
EXTENDS Integers, Sequences, FiniteSets, TLC

VARIABLES
    \* --- fetchSatellites (celestrakLoader.js)
    blocks,             \* the blocks the served file was written from
    file,               \* what fetch(DATA_URL) will answer
    fetchPc,            \* position inside fetchSatellites
    fetchResult,        \* the value the promise resolved to
    \* --- GlobeViewer (App.jsx)
    alive,              \* the initialization effect's alive flag (component mounted)
    clockInitPending,   \* the 800 ms clock-initialisation timer has not fired
    satellites,         \* useState: the catalog
    satrecCache,        \* satrecCacheRef: id -> cached record
    built,              \* per id, how many records twoline2satrec has constructed
    returned,           \* every record getSatrec has answered so far
    requested,          \* the ids of the entries getSatrec was asked for so far
    searchTerm,         \* useState
    showAdvFilters,     \* useState
    filteredSatellites, \* useMemo over satellites, searchTerm, showAdvFilters
    effectPending,      \* a commit whose auto-deselect effect has not run yet
    selectedSat,        \* useState
    selectedSatPath,    \* useState
    selectedSatPathRef, \* useRef
    isTracked,          \* useState
    isTleOutOfRange,    \* useState
    tleWarning,         \* useState ("" is FALSE)
    selectedSatData,    \* App's useState, set through onSatelliteSelect
    isPaused,           \* useState
    multiplier,         \* useState
    clockTime,          \* viewer.clock.currentTime, seconds
    clockMultiplier,    \* viewer.clock.multiplier
    shouldAnimate,      \* viewer.clock.shouldAnimate
    now,                \* Date.now(), seconds
    mountedAt,          \* Date.now() when the component was mounted
    lastTickTime,       \* useRef, seconds
    groundTarget,       \* useState: the ground target, or null
    intercepts,         \* useState: the scanner's list
    lastScannerCheck,   \* useRef, seconds
    scanRadius,         \* useState, km
    \* --- calculatePreciseMovement on its own
    sampleInput,        \* the clock instant and what satellite.propagate answers per step
    sampleI,            \* the loop's i, minutes from the clock instant
    sampleProperty,     \* the SampledPositionProperty being built, or null
    \* --- the CallbackProperty of getDynamicFuturePath on its own
    futureInput,        \* cesiumTime of the request and what satellite.propagate answers
    futureI,            \* the loop's i, minutes from cesiumTime
    futurePositions,    \* the positions array of the request
    \* --- the scanner's loop on its own
    cycleInput,         \* the source list of the cycle
    cycleI,             \* position of the loop in subsetToCheck, 0 when no cycle runs
    cycleFound,         \* the found array of the cycle
    \* --- searchLocation's geocoding requests
    pendingGeocodes,    \* the queries whose fetch has not been answered
    lastSearch,         \* the query of the search issued last, or null
    \* --- scripts/update_tle.js
    script,             \* the run of downloadTLE: position, response, exit code
    outputFile          \* public/data/satellites.tle on disk

loadVars == <<blocks, file, fetchPc, fetchResult>>
cacheVars == <<satrecCache, built, returned, requested>>
filterVars == <<searchTerm, showAdvFilters, filteredSatellites>>
selVars == <<selectedSat, selectedSatPath, selectedSatPathRef, isTracked,
             isTleOutOfRange, tleWarning, selectedSatData>>
clockVars == <<clockTime, clockMultiplier, shouldAnimate>>
uiClockVars == <<isPaused, multiplier>>
tickVars == <<now, mountedAt, lastTickTime>>
scanVars == <<groundTarget, intercepts, lastScannerCheck, scanRadius>>
sampleVars == <<sampleInput, sampleI, sampleProperty>>
futureVars == <<futureInput, futureI, futurePositions>>
cycleVars == <<cycleInput, cycleI, cycleFound>>
geocodeVars == <<pendingGeocodes, lastSearch>>
scriptVars == <<script, outputFile>>
viewVars == <<alive, clockInitPending, satellites, cacheVars, filterVars, effectPending,
              selVars, clockVars, uiClockVars, tickVars, scanVars, sampleVars,
              futureVars, cycleVars, geocodeVars>>
vars == <<loadVars, viewVars, scriptVars>>

\* ------------------------------------------------------------------ bounds
MaxBlocks == 2
\* wall-clock seconds the model follows after the mount
MaxElapsed == 2

\* ------------------------------------------------------------------ text
NL == "\n"
SP == " "
RECURSIVE IndexOf(_, _, _)
IndexOf(s, c, from) ==
    IF from > Len(s) THEN 0
    ELSE IF s[from] = c THEN from
    ELSE IndexOf(s, c, from + 1)

\* String.prototype.split(sep)
RECURSIVE Split(_, _)
Split(s, sep) ==
    LET i == IndexOf(s, sep, 1)
    IN  IF i = 0 THEN <<s>>
        ELSE <<SubSeq(s, 1, i - 1)>> \o Split(SubSeq(s, i + 1, Len(s)), sep)

RECURSIVE TrimStart(_)
TrimStart(s) ==
    IF s # <<>> /\ Head(s) = SP THEN TrimStart(Tail(s)) ELSE s

RECURSIVE TrimEnd(_)
TrimEnd(s) ==
    IF s # <<>> /\ s[Len(s)] = SP THEN TrimEnd(SubSeq(s, 1, Len(s) - 1)) ELSE s

\* String.prototype.trim()
Trim(s) == TrimEnd(TrimStart(s))

\* lines[i] of a JavaScript array (0-based), read where it is defined
At(lines, i) == lines[i + 1]

\* JavaScript truthiness of lines[i]: undefined (past the end) and "" are falsy
Truthy(lines, i) == i < Len(lines) /\ lines[i + 1] # <<>>

\* ------------------------------------------------------------------ loader
BACKUP_TLE ==
    << NL, "ISS (ZARYA)",
       NL, "1 25544U 98067A   24036.56038380  .00014798  00000-0  26998-3 0  9993",
       NL, "2 25544  51.6401 195.9620 0004567 114.7672 344.9754 15.49651543437637",
       NL >>

NormalizeLines(tleData) ==
    LET raw == Split(tleData, NL)
        trimmed == [k \in 1..Len(raw) |-> Trim(raw[k])]
    IN  SelectSeq(trimmed, LAMBDA line : line # <<>>)

\* the for loop of parseTLE: fixed 3-line steps from i
RECURSIVE ParseLoop(_, _, _)
ParseLoop(lines, i, sats) ==
    IF ~(i < Len(lines)) THEN sats
    ELSE IF Truthy(lines, i) /\ Truthy(lines, i + 1) /\ Truthy(lines, i + 2)
         THEN ParseLoop(lines, i + 3,
                        Append(sats,
                               [id |-> i, name |-> At(lines, i),
                                line1 |-> At(lines, i + 1), line2 |-> At(lines, i + 2)]))
         ELSE ParseLoop(lines, i + 3, sats)

parseTLE(tleData) == ParseLoop(NormalizeLines(tleData), 0, <<>>)

\* ------------------------------------------------------------------ files
\* The lines of catalog entry k, as text atoms.
NameOf(k)  == <<"ALPHA", "BRAVO", "CHARLIE", "DELTA">>[k]
Line1Of(k) == <<"1 ALPHA", "1 BRAVO", "1 CHARLIE", "1 DELTA">>[k]
Line2Of(k) == <<"2 ALPHA", "2 BRAVO", "2 CHARLIE", "2 DELTA">>[k]

Parts == {"name", "line1", "line2"}

\* A block of the file: the lines of entry k that are present, whether a
\* whitespace-only line precedes it, and whether its lines are padded.
BlockSet(k) ==
    [sat : {k}, parts : (SUBSET Parts) \ {{}}, blank : BOOLEAN, pad : BOOLEAN]

PartLine(b, p, atom) ==
    IF p \in b.parts
    THEN (IF b.pad THEN <<SP, atom, SP, NL>> ELSE <<atom, NL>>)
    ELSE <<>>

BlockText(b) ==
    (IF b.blank THEN <<SP, NL, NL>> ELSE <<>>)
    \o PartLine(b, "name", NameOf(b.sat))
    \o PartLine(b, "line1", Line1Of(b.sat))
    \o PartLine(b, "line2", Line2Of(b.sat))

RECURSIVE FileText(_)
FileText(bs) == IF bs = <<>> THEN <<>> ELSE BlockText(Head(bs)) \o FileText(Tail(bs))

BlockSeqs ==
    UNION { {bs \in [1..n -> UNION {BlockSet(k) : k \in 1..n}] :
                \A k \in 1..n : bs[k].sat = k} : n \in 0..MaxBlocks }

\* ------------------------------------------------------------------ fetchSatellites
Responses == {"ok", "notOk", "fetchThrows", "textThrows"}

\* a catch block that lets the error escape: the promise rejects
FetchCatchRethrows ==
    /\ fetchPc' = "rejected"
    /\ fetchResult' = <<>>

\* the catch block: resolve with the parsed fallback
FetchCatch ==
    /\ fetchPc' = "resolved"
    /\ fetchResult' = parseTLE(BACKUP_TLE)

FetchStart ==
    /\ fetchPc = "idle"
    /\ fetchPc' = "fetching"
    /\ UNCHANGED <<blocks, file, fetchResult, viewVars, scriptVars>>

\* await fetch(DATA_URL) rejects
FetchThrows ==
    /\ fetchPc = "fetching"
    /\ file.response = "fetchThrows"
    /\ FetchCatch
    /\ UNCHANGED <<blocks, file, viewVars, scriptVars>>

\* await fetch(DATA_URL) resolves; !response.ok throws into the catch block
FetchResponds ==
    /\ fetchPc = "fetching"
    /\ file.response # "fetchThrows"
    /\ IF file.response = "notOk"
       THEN FetchCatch
       ELSE fetchPc' = "reading" /\ UNCHANGED fetchResult
    /\ UNCHANGED <<blocks, file, viewVars, scriptVars>>

\* await response.text() resolves: return parseTLE(text)
TextResolves ==
    /\ fetchPc = "reading"
    /\ file.response = "ok"
    /\ fetchPc' = "resolved"
    /\ fetchResult' = parseTLE(file.text)
    /\ UNCHANGED <<blocks, file, viewVars, scriptVars>>

\* await response.text() rejects
TextThrows ==
    /\ fetchPc = "reading"
    /\ file.response = "textThrows"
    /\ FetchCatch
    /\ UNCHANGED <<blocks, file, viewVars, scriptVars>>

\* ------------------------------------------------------------------ time
Day == 24 * 60 * 60
MAX_FUTURE_DAYS == 30
\* onTick refreshes the UI when more than this many milliseconds have passed
UI_REFRESH_MS == 1000
\* a scanner throttled like the UI refresh
ScannerAtUiRate == UI_REFRESH_MS
\* onTick scans when more than this many milliseconds have passed
SCAN_INTERVAL_MS == 2000

\* ------------------------------------------------------------------ values
Null == [null |-> TRUE]
NaN == [nan |-> TRUE, v |-> 0]
Num(v) == [nan |-> FALSE, v |-> v]

\* ------------------------------------------------------------------ satellite.js
\* The element sets behind the line atoms.  Instants are seconds from the
\* model's origin; a record keeps its epoch in the same unit.
EpochISS == 10 * Day
EpochAlpha == 990 * Day
EpochBravo == 1000 * Day
EpochCharlie == 1001 * Day
Forever == 20000 * Day

\* ALPHA and BRAVO propagate at every instant, CHARLIE stops propagating
\* 25 days after its epoch and makes propagate throw from 50 days after it,
\* DELTA's lines make the library throw
Elements(k) ==
    CASE k = 1 -> [threw |-> FALSE, jdsatepoch |-> Num(EpochAlpha), lifetime |-> Forever,
                   throwsFrom |-> Forever]
      [] k = 2 -> [threw |-> FALSE, jdsatepoch |-> Num(EpochBravo), lifetime |-> Forever,
                   throwsFrom |-> Forever]
      [] k = 3 -> [threw |-> FALSE, jdsatepoch |-> Num(EpochCharlie), lifetime |-> 25 * Day,
                   throwsFrom |-> EpochCharlie + 50 * Day]
      [] OTHER -> [threw |-> TRUE, jdsatepoch |-> NaN, lifetime |-> 0, throwsFrom |-> Forever]

\* satellite.twoline2satrec: the record of a line pair; lines that are no
\* element pair give a record without a usable epoch
twoline2satrec(line1, line2) ==
    IF line1 = <<BACKUP_TLE[4]>> /\ line2 = <<BACKUP_TLE[6]>>
    THEN [threw |-> FALSE, jdsatepoch |-> Num(EpochISS), lifetime |-> Forever,
          throwsFrom |-> Forever]
    ELSE IF \E k \in 1..4 : line1 = <<Line1Of(k)>> /\ line2 = <<Line2Of(k)>>
    THEN Elements(CHOOSE k \in 1..4 : line1 = <<Line1Of(k)>> /\ line2 = <<Line2Of(k)>>)
    ELSE [threw |-> FALSE, jdsatepoch |-> NaN, lifetime |-> 0, throwsFrom |-> Forever]

\* satellite.propagate: a position, or none (position: false), or an
\* exception, under which the caller reads no position either
propagate(satrec, t) ==
    [threw |-> t >= satrec.rec.throwsFrom,
     position |-> /\ t < satrec.rec.throwsFrom
                  /\ ~satrec.rec.jdsatepoch.nan
                  /\ t - satrec.rec.jdsatepoch.v < satrec.rec.lifetime]

\* ------------------------------------------------------------------ getSatrec
AllIds == {3 * (k - 1) : k \in 1..4}

\* The cache with its instrumentation: records built, records answered, ids asked.
CacheState == [cache |-> satrecCache, built |-> built, returned |-> returned,
               requested |-> requested]

\* a getSatrec that never looks the id up in the cache
getSatrecUncached(c, sat) ==
    IF sat = Null \/ sat.id = 0
    THEN [c |-> [c EXCEPT !.requested = @ \cup (IF sat = Null THEN {} ELSE {sat.id})],
          satrec |-> Null]
    ELSE LET c1 == [c EXCEPT !.requested = @ \cup {sat.id}]
             r == twoline2satrec(sat.line1, sat.line2)
             satrec == [id |-> sat.id, serial |-> c1.built[sat.id] + 1, rec |-> r]
         IN  IF r.threw
             THEN [c |-> c1, satrec |-> Null]
             ELSE [c |-> [c1 EXCEPT !.cache[sat.id] = satrec,
                                    !.built[sat.id] = @ + 1,
                                    !.returned = @ \cup {satrec}],
                   satrec |-> satrec]

getSatrec(c, sat) ==
    IF sat = Null \/ sat.id = 0
    THEN [c |-> [c EXCEPT !.requested = @ \cup (IF sat = Null THEN {} ELSE {sat.id})],
          satrec |-> Null]
    ELSE LET c1 == [c EXCEPT !.requested = @ \cup {sat.id}]
         IN  IF c1.cache[sat.id] # Null
             THEN [c |-> [c1 EXCEPT !.returned = @ \cup {c1.cache[sat.id]}],
                   satrec |-> c1.cache[sat.id]]
             ELSE LET r == twoline2satrec(sat.line1, sat.line2)
                      satrec == [id |-> sat.id, serial |-> c1.built[sat.id] + 1, rec |-> r]
                  IN  IF r.threw
                      THEN [c |-> c1, satrec |-> Null]
                      ELSE [c |-> [c1 EXCEPT !.cache[sat.id] = satrec,
                                             !.built[sat.id] = @ + 1,
                                             !.returned = @ \cup {satrec}],
                            satrec |-> satrec]

\* getSatrec for each entry of a list, in order
RECURSIVE getSatrecEach(_, _)
getSatrecEach(c, sats) ==
    IF sats = <<>> THEN c ELSE getSatrecEach(getSatrec(c, Head(sats)).c, Tail(sats))

\* the record getSatrec answers for sat with the cache as it is
satrecOf(sat) == getSatrec(CacheState, sat).satrec

getTleEpochDate(sat) ==
    LET satrec == satrecOf(sat)
    IN  IF satrec = Null \/ satrec.rec.jdsatepoch.nan \/ satrec.rec.jdsatepoch.v = 0
        THEN [known |-> FALSE, t |-> 0]
        ELSE [known |-> TRUE, t |-> satrec.rec.jdsatepoch.v]

isOutOfRange(jsDate, sat) ==
    IF sat = Null THEN FALSE
    ELSE LET epoch == getTleEpochDate(sat)
         IN  IF ~epoch.known THEN FALSE
             ELSE jsDate > epoch.t + MAX_FUTURE_DAYS * 24 * 60 * 60

\* ------------------------------------------------------------------ filtering
\* (s.name || "").toUpperCase().includes(q): a query is empty, or one whole
\* name atom, or an atom no name holds
includes(name, q) == q = "" \/ name = <<q>>

\* the search filter's pass over the catalog
searchFilter(sats, q) ==
    IF q # "" THEN SelectSeq(sats, LAMBDA x : includes(x.name, q)) ELSE sats

\* the advanced filter's pass over result, with the default altitude and
\* velocity ranges: an entry stays when it has a record and a position now
advancedFilter(result, wallNow) ==
    SelectSeq(result, LAMBDA x : satrecOf(x) # Null /\ propagate(satrecOf(x), wallNow).position)

\* the filteredSatellites memo
computeFiltered(sats, q, adv, wallNow) ==
    IF ~adv THEN searchFilter(sats, q)
    ELSE advancedFilter(searchFilter(sats, q), wallNow)

\* the entries the memo asks getSatrec for, in order
filterRequests(sats, q, adv) == IF adv THEN searchFilter(sats, q) ELSE <<>>

InList(sats, sat) == sat # Null /\ \E k \in 1..Len(sats) : sats[k].id = sat.id

\* satellites.find((s) => s.id === satId)
find(sats, satId) ==
    IF \E k \in 1..Len(sats) : sats[k].id = satId
    THEN sats[CHOOSE k \in 1..Len(sats) :
                 sats[k].id = satId /\ \A j \in 1..(k - 1) : sats[j].id # satId]
    ELSE Null

\* ------------------------------------------------------------------ render
\* The entries one render asks getSatrec for: getSimpleCallback for each
\* background entity (the filtered list without the selection), then the
\* selection's own position callbacks and date limits.
renderRequests(filt, sel) ==
    SelectSeq(filt, LAMBDA x : sel = Null \/ x.id # sel.id)
    \o (IF sel = Null THEN <<>> ELSE <<sel>>)

\* the cache after getSatrec was asked for each entry of asked, in order
SetCache(asked) ==
    LET c == getSatrecEach(CacheState, asked)
    IN  /\ satrecCache' = c.cache
        /\ built' = c.built
        /\ returned' = c.returned
        /\ requested' = c.requested

\* ------------------------------------------------------------------ info panel
\* Number(x.toFixed(2)) of an age in days, kept in hundredths of a day
toFixed2(ageSec) ==
    LET a == IF ageSec < 0 THEN 0 - ageSec ELSE ageSec
        h == (a \div Day) * 100 + (2 * (a % Day) * 100 + Day) \div (2 * Day)
    IN  IF ageSec < 0 THEN 0 - h ELSE h

\* the label chain with inclusive comparisons
tleAgeLabelInclusive(age) ==
    IF ~age.nan /\ age.v <= 3 * Day THEN "FRESH"
    ELSE IF ~age.nan /\ age.v <= 14 * Day THEN "OK"
    ELSE IF ~age.nan /\ age.v <= 30 * Day THEN "OLD"
    ELSE "VERY OLD"

tleAgeLabel(age) ==
    IF ~age.nan /\ age.v < 3 * Day THEN "FRESH"
    ELSE IF ~age.nan /\ age.v < 14 * Day THEN "OK"
    ELSE IF ~age.nan /\ age.v < 30 * Day THEN "OLD"
    ELSE "VERY OLD"

\* updateInfoPanel(sat) with the viewer's clock at instant t: an exception
\* of propagate is caught around the whole body, before onSatelliteSelect
updateInfoPanel(sat, t) ==
    LET satrec == satrecOf(sat)
    IN  IF satrec = Null THEN [published |-> FALSE, data |-> Null]
        ELSE IF propagate(satrec, t).threw THEN [published |-> FALSE, data |-> Null]
        ELSE LET jd == satrec.rec.jdsatepoch
                 age == IF jd.nan THEN NaN ELSE Num(t - jd.v)
             IN  [published |-> TRUE,
                  data |-> [name |-> sat.name, satId |-> sat.id,
                            position |-> propagate(satrec, t).position,
                            tleAgeDays |-> IF age.nan THEN NaN ELSE Num(toFixed2(age.v)),
                            tleAgeLabel |-> tleAgeLabel(age),
                            at |-> t]]

\* SatelliteInfo: the band shown next to DATA AGE, from data.tleAgeDays (a
\* number, in hundredths of a day here); NaN is a number below no threshold
panelBand(data) ==
    IF data = Null THEN "N/A"
    ELSE IF ~data.tleAgeDays.nan /\ data.tleAgeDays.v < 3 * 100 THEN "FRESH"
    ELSE IF ~data.tleAgeDays.nan /\ data.tleAgeDays.v < 14 * 100 THEN "STABLE"
    ELSE IF ~data.tleAgeDays.nan /\ data.tleAgeDays.v < 30 * 100 THEN "STALE"
    ELSE "OLD"

\* ------------------------------------------------------------------ path sampling
\* for (let i = -240; i <= 240; i += 2): minutes around the clock's instant
HISTORY_MINUTES == 240
HISTORY_STEP == 2

\* what satellite.propagate answers at a step: a position, position: false,
\* a position whose x is NaN, or an exception
Outcomes == {"position", "none", "nan", "throws"}

\* the answer at step i; the steps an input does not mark give a position
pvAt(input, i) == IF i \in DOMAIN input.pv THEN input.pv[i] ELSE "position"

\* SampledPositionProperty.addSample: the samples are kept in time order
addSample(property, jt) ==
    [times |-> SelectSeq(property.times, LAMBDA x : x < jt) \o <<jt>>
               \o SelectSeq(property.times, LAMBDA x : x > jt)]

\* one pass of the loop body at step i: a step that throws, gives no
\* position or gives NaN adds nothing
samplingStep(input, i, property) ==
    LET t == input.center + i * 60
        pv == pvAt(input, i)
    IN  IF pv = "throws" THEN property
        ELSE IF pv = "none" \/ pv = "nan" THEN property
        ELSE addSample(property, t)

\* calculatePreciseMovement for a record that getSatrec returns, with the
\* viewer's clock at sampleInput.center: the property is created
SampleStart ==
    /\ sampleInput # Null
    /\ sampleProperty = Null
    /\ sampleProperty' = [times |-> <<>>]
    /\ sampleI' = -HISTORY_MINUTES
    /\ UNCHANGED <<loadVars, alive, clockInitPending, satellites, cacheVars, filterVars,
                   effectPending, selVars, clockVars, uiClockVars, tickVars, scanVars,
                   sampleInput, futureVars, cycleVars, geocodeVars, scriptVars>>

\* a loop whose pass ends the loop when the propagation throws
SampleStepAborts ==
    /\ sampleProperty # Null
    /\ sampleI <= HISTORY_MINUTES
    /\ sampleProperty' = samplingStep(sampleInput, sampleI, sampleProperty)
    /\ sampleI' = (IF pvAt(sampleInput, sampleI) = "throws" THEN HISTORY_MINUTES + HISTORY_STEP
                   ELSE sampleI + HISTORY_STEP)
    /\ UNCHANGED <<loadVars, alive, clockInitPending, satellites, cacheVars, filterVars,
                   effectPending, selVars, clockVars, uiClockVars, tickVars, scanVars,
                   sampleInput, futureVars, cycleVars, geocodeVars, scriptVars>>

\* one pass of the for loop
SampleStep ==
    /\ sampleProperty # Null
    /\ sampleI <= HISTORY_MINUTES
    /\ sampleProperty' = samplingStep(sampleInput, sampleI, sampleProperty)
    /\ sampleI' = sampleI + HISTORY_STEP
    /\ UNCHANGED <<loadVars, alive, clockInitPending, satellites, cacheVars, filterVars,
                   effectPending, selVars, clockVars, uiClockVars, tickVars, scanVars,
                   sampleInput, futureVars, cycleVars, geocodeVars, scriptVars>>

\* ------------------------------------------------------------------ future path
\* for (let i = 0; i <= 90; i += 1): minutes ahead of the request's instant
FUTURE_MINUTES == 90
FUTURE_STEP == 1

\* instants the callback is asked for, and the steps propagate may fail at
FutureStarts == {EpochBravo + 3 * Day, EpochBravo + 3 * Day + 60}
FutureMarkedSteps == {0, FUTURE_STEP, FUTURE_MINUTES}
FutureInputs == [center : FutureStarts, pv : [FutureMarkedSteps -> Outcomes]]

\* a callback whose positions array outlives the request
FutureStartKeepsArray(input) ==
    /\ futureI > FUTURE_MINUTES
    /\ futureInput' = input
    /\ futureI' = 0
    /\ futurePositions' = futurePositions
    /\ UNCHANGED <<loadVars, alive, clockInitPending, satellites, cacheVars, filterVars,
                   effectPending, selVars, clockVars, uiClockVars, tickVars, scanVars,
                   sampleVars, cycleVars, geocodeVars, scriptVars>>

\* Cesium evaluates the CallbackProperty at cesiumTime = input.center: a new
\* positions array, startDate, i = 0
FutureStart(input) ==
    /\ futureI > FUTURE_MINUTES
    /\ futureInput' = input
    /\ futureI' = 0
    /\ futurePositions' = <<>>
    /\ UNCHANGED <<loadVars, alive, clockInitPending, satellites, cacheVars, filterVars,
                   effectPending, selVars, clockVars, uiClockVars, tickVars, scanVars,
                   sampleVars, cycleVars, geocodeVars, scriptVars>>

\* one pass of the callback's for loop: positions.push unless the step
\* throws, gives no position or gives NaN
FutureStep ==
    /\ futureInput # Null
    /\ futureI <= FUTURE_MINUTES
    /\ LET t == futureInput.center + futureI * 60
           pv == pvAt(futureInput, futureI)
       IN  futurePositions' = (IF pv = "throws" THEN futurePositions
                               ELSE IF pv = "none" \/ pv = "nan" THEN futurePositions
                               ELSE Append(futurePositions, [at |-> t]))
    /\ futureI' = futureI + FUTURE_STEP
    /\ UNCHANGED <<loadVars, alive, clockInitPending, satellites, cacheVars, filterVars,
                   effectPending, selVars, clockVars, uiClockVars, tickVars, scanVars,
                   sampleVars, futureInput, cycleVars, geocodeVars, scriptVars>>

\* a sampling that returns before it builds a path
calculatePreciseMovementSkipped(sat, baseDate) == [sampled |-> FALSE, path |-> Null]

\* calculatePreciseMovement(sat) with the viewer's clock at baseDate: the
\* sampled path is a function of the record and the centre of its window
calculatePreciseMovement(sat, baseDate) ==
    LET satrec == satrecOf(sat)
    IN  IF satrec = Null THEN [sampled |-> FALSE, path |-> Null]
        ELSE [sampled |-> TRUE,
              path |-> [satId |-> sat.id, serial |-> satrec.serial, center |-> baseDate]]

\* ------------------------------------------------------------------ inputs
\* wall-clock seconds between two frames
TickSeconds == {1, 2}
\* frames far enough apart for each to refresh the UI
SlowFrames == {2}
\* values of the speed buttons and of the custom speed box
SpeedInputs == {"1", "10", "100", "0", ""}
\* values of the name search box
Queries == {"", "BRAVO", "ZZZ"}
\* values of the datetime-local input (whole minutes)
SessionDates == {EpochBravo + 3 * Day, EpochBravo + 31 * Day}
ClockDates == {EpochBravo + 3 * Day}
FreshDates ==
    { EpochBravo - Day, EpochBravo + Day, EpochBravo + 3 * Day - 60, EpochBravo + 3 * Day,
      EpochBravo + 14 * Day,
      EpochBravo + 30 * Day, EpochBravo + 31 * Day, EpochBravo + 33 * Day }
\* the first n entries of the catalog as a well-formed file
ServedBlocks(n) == [k \in 1..n |-> [sat |-> k, parts |-> Parts, blank |-> k = 2, pad |-> k = 3]]

parseFloat(val) ==
    CASE val = "1" -> Num(1)
      [] val = "10" -> Num(10)
      [] val = "100" -> Num(100)
      [] val = "10000" -> Num(10000)
      [] val = "0" -> Num(0)
      [] OTHER -> NaN

\* with a ground target the session is followed for one more scanner
\* interval, long enough for a second scan cycle
ElapsedAfter(dt) ==
    now + dt <= mountedAt + MaxElapsed
                + (IF groundTarget = Null THEN 0 ELSE SCAN_INTERVAL_MS \div 1000)

\* a user event reaches a handler of the rendered component
Interactive == alive /\ ~effectPending

\* ------------------------------------------------------------------ initialization effect
\* the cleanup of the initialization effect: alive = false; clearTimeout(t)
Unmount ==
    /\ alive
    /\ alive' = FALSE
    /\ clockInitPending' = FALSE
    /\ UNCHANGED <<loadVars, scanVars, sampleVars, futureVars, cycleVars, geocodeVars,
                   scriptVars, satellites, cacheVars, filterVars, effectPending, selVars,
                   clockVars, uiClockVars, tickVars>>

\* a then callback that sets the catalog whether or not the component is mounted
LoadThenUnguarded ==
    /\ fetchPc = "resolved"
    /\ fetchPc' = "delivered"
    /\ LET list == computeFiltered(fetchResult, searchTerm, showAdvFilters, now)
       IN  /\ satellites' = fetchResult
           /\ filteredSatellites' = list
           /\ SetCache(filterRequests(fetchResult, searchTerm, showAdvFilters)
                       \o renderRequests(list, selectedSat))
           /\ effectPending' = (selectedSat # Null)
    /\ UNCHANGED <<blocks, file, fetchResult, scanVars, sampleVars, futureVars, cycleVars, geocodeVars, scriptVars, alive, clockInitPending, searchTerm,
                   showAdvFilters, selVars, clockVars, uiClockVars, tickVars>>

\* fetchSatellites().then((data) => { if (!alive) return; setSatellites(data || []) })
LoadThen ==
    /\ fetchPc = "resolved"
    /\ fetchPc' = "delivered"
    /\ IF alive
       THEN LET list == computeFiltered(fetchResult, searchTerm, showAdvFilters, now)
            IN  /\ satellites' = fetchResult
                /\ filteredSatellites' = list
                /\ SetCache(filterRequests(fetchResult, searchTerm, showAdvFilters)
                            \o renderRequests(list, selectedSat))
                /\ effectPending' = (selectedSat # Null)
       ELSE UNCHANGED <<satellites, filteredSatellites, cacheVars, effectPending>>
    /\ UNCHANGED <<blocks, file, fetchResult, scanVars, sampleVars, futureVars, cycleVars, geocodeVars, scriptVars, alive, clockInitPending, searchTerm,
                   showAdvFilters, selVars, clockVars, uiClockVars, tickVars>>

\* the 800 ms timer of the initialization effect
ClockInitTimer ==
    /\ alive
    /\ clockInitPending
    /\ clockInitPending' = FALSE
    /\ clockTime' = now
    /\ clockMultiplier' = 10
    /\ shouldAnimate' = TRUE
    /\ UNCHANGED <<loadVars, scanVars, sampleVars, futureVars, cycleVars, geocodeVars, scriptVars, alive, satellites, cacheVars, filterVars, effectPending,
                   selVars, uiClockVars, tickVars>>

\* ------------------------------------------------------------------ filter inputs
SetFilter(q, adv) ==
    LET list == computeFiltered(satellites, q, adv, now)
    IN  /\ searchTerm' = q
        /\ showAdvFilters' = adv
        /\ filteredSatellites' = list
        /\ SetCache(filterRequests(satellites, q, adv) \o renderRequests(list, selectedSat))
        /\ effectPending' = (selectedSat # Null)
        /\ UNCHANGED <<loadVars, scanVars, sampleVars, futureVars, cycleVars, geocodeVars, scriptVars, alive, clockInitPending, satellites, selVars, clockVars,
                       uiClockVars, tickVars>>

SetSearchTerm(q) ==
    /\ Interactive
    /\ q # searchTerm
    /\ SetFilter(q, showAdvFilters)

ToggleAdvFilters ==
    /\ Interactive
    /\ SetFilter(searchTerm, ~showAdvFilters)

\* an auto-deselect that leaves the follow flag and the path ref alone
AutoDeselectKeepsFollow ==
    /\ alive
    /\ effectPending
    /\ effectPending' = FALSE
    /\ IF selectedSat # Null /\ ~InList(filteredSatellites, selectedSat)
       THEN /\ selectedSat' = Null
            /\ selectedSatPath' = Null
            /\ selectedSatData' = Null
            /\ SetCache(renderRequests(filteredSatellites, Null))
            /\ UNCHANGED <<selectedSatPathRef, isTracked, isTleOutOfRange, tleWarning>>
       ELSE UNCHANGED <<selVars, cacheVars>>
    /\ UNCHANGED <<loadVars, scanVars, sampleVars, futureVars, cycleVars, geocodeVars, scriptVars, alive, clockInitPending, satellites, filterVars, clockVars,
                   uiClockVars, tickVars>>

\* the auto-deselect effect over [filteredSatellites, selectedSat]
AutoDeselectEffect ==
    /\ alive
    /\ effectPending
    /\ effectPending' = FALSE
    /\ IF selectedSat # Null /\ ~InList(filteredSatellites, selectedSat)
       THEN /\ selectedSat' = Null
            /\ selectedSatPath' = Null
            /\ selectedSatPathRef' = Null
            /\ isTracked' = FALSE
            /\ selectedSatData' = Null
            /\ SetCache(renderRequests(filteredSatellites, Null))
            /\ UNCHANGED <<isTleOutOfRange, tleWarning>>
       ELSE UNCHANGED <<selVars, cacheVars>>
    /\ UNCHANGED <<loadVars, scanVars, sampleVars, futureVars, cycleVars, geocodeVars, scriptVars, alive, clockInitPending, satellites, filterVars, clockVars,
                   uiClockVars, tickVars>>

\* ------------------------------------------------------------------ selection
\* the ids a click can carry: the satId of a rendered entity
ClickableIds == {filteredSatellites[k].id : k \in 1..Len(filteredSatellites)}

\* a selectSatelliteById that clears the selection when the id is not found
selectSatelliteByIdClears(satId) ==
    LET sat == find(satellites, satId)
    IN  IF sat = Null
        THEN /\ selectedSat' = Null
             /\ selectedSatPath' = Null
             /\ selectedSatPathRef' = Null
             /\ selectedSatData' = Null
             /\ isTracked' = FALSE
             /\ effectPending' = (selectedSat # Null)
             /\ UNCHANGED <<isTleOutOfRange, tleWarning, cacheVars>>
        ELSE LET out == isOutOfRange(clockTime, sat)
                 m == calculatePreciseMovement(sat, clockTime)
                 u == updateInfoPanel(sat, clockTime)
             IN  /\ selectedSat' = sat
                 /\ isTleOutOfRange' = out
                 /\ IF out
                    THEN /\ selectedSatPath' = Null
                         /\ selectedSatPathRef' = Null
                         /\ tleWarning' = TRUE
                    ELSE /\ selectedSatPath' = (IF m.sampled THEN m.path ELSE selectedSatPath)
                         /\ selectedSatPathRef' =
                                (IF m.sampled THEN m.path ELSE selectedSatPathRef)
                         /\ tleWarning' = FALSE
                 /\ selectedSatData' = (IF u.published THEN u.data ELSE selectedSatData)
                 /\ SetCache(<<sat>> \o (IF out THEN <<>> ELSE <<sat>>) \o <<sat>>
                             \o renderRequests(filteredSatellites, sat))
                 /\ effectPending' = (sat # selectedSat)
                 /\ UNCHANGED isTracked

selectSatelliteById(satId) ==
    LET sat == find(satellites, satId)
    IN  IF sat = Null
        THEN UNCHANGED <<selVars, cacheVars, effectPending>>
        ELSE LET jsDate == clockTime
                 out == isOutOfRange(jsDate, sat)
                 m == calculatePreciseMovement(sat, clockTime)
                 u == updateInfoPanel(sat, clockTime)
             IN  /\ selectedSat' = sat
                 /\ isTleOutOfRange' = out
                 /\ IF out
                    THEN /\ selectedSatPath' = Null
                         /\ selectedSatPathRef' = Null
                         /\ tleWarning' = TRUE
                    ELSE /\ selectedSatPath' = (IF m.sampled THEN m.path ELSE selectedSatPath)
                         /\ selectedSatPathRef' =
                                (IF m.sampled THEN m.path ELSE selectedSatPathRef)
                         /\ tleWarning' = FALSE
                 /\ selectedSatData' = (IF u.published THEN u.data ELSE selectedSatData)
                 /\ SetCache(<<sat>> \o (IF out THEN <<>> ELSE <<sat>>) \o <<sat>>
                             \o renderRequests(filteredSatellites, sat))
                 /\ effectPending' = (sat # selectedSat)
                 /\ UNCHANGED isTracked

\* selectSatelliteById called with any id, in the catalog or not
SelectById(satId) ==
    /\ Interactive
    /\ selectSatelliteById(satId)
    /\ UNCHANGED <<loadVars, scanVars, sampleVars, futureVars, cycleVars, geocodeVars, scriptVars, alive, clockInitPending, satellites, filterVars, clockVars,
                   uiClockVars, tickVars>>

\* handleSelection: a click that picks an entity carrying a satId
ClickSatellite(satId) ==
    /\ Interactive
    /\ satId \in ClickableIds
    /\ selectSatelliteById(satId)
    /\ UNCHANGED <<loadVars, scanVars, sampleVars, futureVars, cycleVars, geocodeVars, scriptVars, alive, clockInitPending, satellites, filterVars, clockVars,
                   uiClockVars, tickVars>>

\* a background click that leaves the path ref and the follow flag alone
ClickBackgroundKeepsRef ==
    /\ Interactive
    /\ selectedSat' = Null
    /\ selectedSatPath' = Null
    /\ selectedSatData' = Null
    /\ SetCache(renderRequests(filteredSatellites, Null))
    /\ UNCHANGED <<loadVars, scanVars, sampleVars, futureVars, cycleVars, geocodeVars, scriptVars, alive, clockInitPending, satellites, filterVars,
                   effectPending, selectedSatPathRef, isTracked, isTleOutOfRange, tleWarning,
                   clockVars, uiClockVars, tickVars>>

\* handleSelection: a single click on the background
ClickBackground ==
    /\ Interactive
    /\ selectedSat' = Null
    /\ selectedSatPath' = Null
    /\ selectedSatPathRef' = Null
    /\ selectedSatData' = Null
    /\ isTracked' = FALSE
    /\ SetCache(renderRequests(filteredSatellites, Null))
    /\ UNCHANGED <<loadVars, scanVars, sampleVars, futureVars, cycleVars, geocodeVars, scriptVars, alive, clockInitPending, satellites, filterVars, effectPending,
                   isTleOutOfRange, tleWarning, clockVars, uiClockVars, tickVars>>

\* a tracking button rendered whatever the selection
ToggleTrackAnytime ==
    /\ Interactive
    /\ isTracked' = ~isTracked
    /\ UNCHANGED <<loadVars, scanVars, sampleVars, futureVars, cycleVars, geocodeVars, scriptVars, alive, clockInitPending, satellites, cacheVars, filterVars,
                   effectPending, selectedSat, selectedSatPath, selectedSatPathRef,
                   isTleOutOfRange, tleWarning, selectedSatData, clockVars, uiClockVars,
                   tickVars>>

\* the tracking button, rendered when selectedSat && isSelectionInFilter
ToggleTrack ==
    /\ Interactive
    /\ InList(filteredSatellites, selectedSat)
    /\ isTracked' = ~isTracked
    /\ UNCHANGED <<loadVars, scanVars, sampleVars, futureVars, cycleVars, geocodeVars, scriptVars, alive, clockInitPending, satellites, cacheVars, filterVars,
                   effectPending, selectedSat, selectedSatPath, selectedSatPathRef,
                   isTleOutOfRange, tleWarning, selectedSatData, clockVars, uiClockVars,
                   tickVars>>

\* ------------------------------------------------------------------ clock controls
\* a togglePlay that also puts the speed back to the default
togglePlayResetsSpeed ==
    /\ Interactive
    /\ shouldAnimate' = ~shouldAnimate
    /\ isPaused' = ~shouldAnimate'
    /\ multiplier' = 10
    /\ clockMultiplier' = 10
    /\ UNCHANGED <<loadVars, scanVars, sampleVars, futureVars, cycleVars, geocodeVars, scriptVars, alive, clockInitPending, satellites, cacheVars, filterVars,
                   effectPending, selVars, clockTime, tickVars>>

togglePlay ==
    /\ Interactive
    /\ shouldAnimate' = ~shouldAnimate
    /\ isPaused' = ~shouldAnimate'
    /\ UNCHANGED <<loadVars, scanVars, sampleVars, futureVars, cycleVars, geocodeVars, scriptVars, alive, clockInitPending, satellites, cacheVars, filterVars,
                   effectPending, selVars, clockTime, clockMultiplier, multiplier, tickVars>>

\* a setSpeed that sets the multiplier and leaves the running flag alone
setSpeedKeepsPaused(val) ==
    /\ Interactive
    /\ LET s == parseFloat(val)
       IN  IF s.nan
           THEN UNCHANGED <<multiplier, clockMultiplier>>
           ELSE /\ multiplier' = s.v
                /\ clockMultiplier' = s.v
    /\ UNCHANGED <<loadVars, scanVars, sampleVars, futureVars, cycleVars, geocodeVars, scriptVars, alive, clockInitPending, satellites, cacheVars, filterVars,
                   effectPending, selVars, clockTime, tickVars, shouldAnimate, isPaused>>

setSpeed(val) ==
    /\ Interactive
    /\ LET s == parseFloat(val)
       IN  IF s.nan
           THEN UNCHANGED <<multiplier, clockMultiplier, shouldAnimate, isPaused>>
           ELSE /\ multiplier' = s.v
                /\ clockMultiplier' = s.v
                /\ shouldAnimate' = TRUE
                /\ isPaused' = FALSE
    /\ UNCHANGED <<loadVars, scanVars, sampleVars, futureVars, cycleVars, geocodeVars, scriptVars, alive, clockInitPending, satellites, cacheVars, filterVars,
                   effectPending, selVars, clockTime, tickVars>>

\* a handleDateChange without the ceiling taken from the wall clock
handleDateChangeNoCeiling(newJsDate) ==
    /\ Interactive
    /\ LET epoch == IF selectedSat # Null THEN getTleEpochDate(selectedSat)
                    ELSE [known |-> FALSE, t |-> 0]
           objMax == epoch.t + MAX_FUTURE_DAYS * 24 * 60 * 60
           d1 == IF epoch.known /\ newJsDate > objMax THEN objMax ELSE newJsDate
           finalDate == d1
           out == IF selectedSat # Null THEN isOutOfRange(finalDate, selectedSat) ELSE FALSE
           m == IF ~out /\ selectedSat # Null
                THEN calculatePreciseMovement(selectedSat, finalDate)
                ELSE [sampled |-> FALSE, path |-> Null]
           asked == IF selectedSat = Null THEN <<>>
                    ELSE <<selectedSat, selectedSat>>
                         \o (IF out THEN <<>> ELSE <<selectedSat>>)
       IN  /\ clockTime' = finalDate
           /\ shouldAnimate' = TRUE
           /\ isTleOutOfRange' = out
           /\ IF out
              THEN /\ selectedSatPath' = Null
                   /\ selectedSatPathRef' = Null
                   /\ tleWarning' = TRUE
              ELSE /\ selectedSatPath' = (IF m.sampled THEN m.path ELSE selectedSatPath)
                   /\ selectedSatPathRef' =
                          (IF m.sampled THEN m.path ELSE selectedSatPathRef)
                   /\ tleWarning' = FALSE
           /\ SetCache(asked \o renderRequests(filteredSatellites, selectedSat))
    /\ UNCHANGED <<loadVars, scanVars, sampleVars, futureVars, cycleVars, geocodeVars, scriptVars, alive, clockInitPending, satellites, filterVars, effectPending,
                   selectedSat, isTracked, selectedSatData, clockMultiplier, uiClockVars,
                   tickVars>>

handleDateChange(newJsDate) ==
    /\ Interactive
    /\ LET epoch == IF selectedSat # Null THEN getTleEpochDate(selectedSat)
                    ELSE [known |-> FALSE, t |-> 0]
           objMax == epoch.t + MAX_FUTURE_DAYS * 24 * 60 * 60
           d1 == IF epoch.known /\ newJsDate > objMax THEN objMax ELSE newJsDate
           maxLimit == now + MAX_FUTURE_DAYS * 24 * 60 * 60
           finalDate == IF d1 > maxLimit THEN maxLimit ELSE d1
           out == IF selectedSat # Null THEN isOutOfRange(finalDate, selectedSat) ELSE FALSE
           m == IF ~out /\ selectedSat # Null
                THEN calculatePreciseMovement(selectedSat, finalDate)
                ELSE [sampled |-> FALSE, path |-> Null]
           asked == IF selectedSat = Null THEN <<>>
                    ELSE <<selectedSat, selectedSat>>
                         \o (IF out THEN <<>> ELSE <<selectedSat>>)
       IN  /\ clockTime' = finalDate
           /\ shouldAnimate' = TRUE
           /\ isTleOutOfRange' = out
           /\ IF out
              THEN /\ selectedSatPath' = Null
                   /\ selectedSatPathRef' = Null
                   /\ tleWarning' = TRUE
              ELSE /\ selectedSatPath' = (IF m.sampled THEN m.path ELSE selectedSatPath)
                   /\ selectedSatPathRef' =
                          (IF m.sampled THEN m.path ELSE selectedSatPathRef)
                   /\ tleWarning' = FALSE
           /\ SetCache(asked \o renderRequests(filteredSatellites, selectedSat))
    /\ UNCHANGED <<loadVars, scanVars, sampleVars, futureVars, cycleVars, geocodeVars, scriptVars, alive, clockInitPending, satellites, filterVars, effectPending,
                   selectedSat, isTracked, selectedSatData, clockMultiplier, uiClockVars,
                   tickVars>>

\* ------------------------------------------------------------------ scanner
\* sourceList.slice(0, 1000)
SCAN_LIMIT == 1000

\* coordinates typed into the location box
LocationQueries == {"43.75, 24.87"}

\* Cartesian3.distance(satCart, groundTarget.position) / 1000 at instant t:
\* the distances of the catalog's entries from the target
distanceKm(sat, target, t) ==
    CASE sat.name = <<"ALPHA">> -> 100
      [] sat.name = <<"BRAVO">> -> 300
      [] sat.name = <<"CHARLIE">> -> 300
      [] sat.name = <<"ISS (ZARYA)">> -> 400
      [] OTHER -> 900

\* an insertion that puts an entry before the entries at the same distance
RECURSIVE insertBeforeEqual(_, _)
insertBeforeEqual(sorted, x) ==
    IF sorted = <<>> THEN <<x>>
    ELSE IF Head(sorted).distanceKm < x.distanceKm
         THEN <<Head(sorted)>> \o insertBeforeEqual(Tail(sorted), x)
         ELSE <<x>> \o sorted

\* found.sort((a, b) => a.distanceKm - b.distanceKm): a stable sort
RECURSIVE insertByDistance(_, _)
insertByDistance(sorted, x) ==
    IF sorted = <<>> THEN <<x>>
    ELSE IF Head(sorted).distanceKm <= x.distanceKm
         THEN <<Head(sorted)>> \o insertByDistance(Tail(sorted), x)
         ELSE <<x>> \o sorted

RECURSIVE sortByDistance(_)
sortByDistance(found) ==
    IF found = <<>> THEN <<>>
    ELSE insertByDistance(sortByDistance(SubSeq(found, 1, Len(found) - 1)), found[Len(found)])

\* a slice that takes the whole list
sliceEndWhole(len) == len

\* sourceList.slice(0, 1000): the last position taken of a list of len entries
sliceEnd(len) == IF len < SCAN_LIMIT THEN len ELSE SCAN_LIMIT

\* the entries one scan cycle looks at
scanSubset ==
    LET sourceList == IF Len(filteredSatellites) # 0 THEN filteredSatellites ELSE satellites
    IN  SubSeq(sourceList, 1, sliceEnd(Len(sourceList)))

\* one scan cycle at instant t: the intercept list it sets
scanCycle(t) ==
    LET near == SelectSeq(scanSubset,
                          LAMBDA sat : /\ satrecOf(sat) # Null
                                       /\ propagate(satrecOf(sat), t).position
                                       /\ distanceKm(sat, groundTarget, t) < scanRadius)
        found == [k \in 1..Len(near) |->
                     [name |-> near[k].name, id |-> near[k].id,
                      distanceKm |-> distanceKm(near[k], groundTarget, t)]]
        sorted == sortByDistance(found)
    IN  [k \in 1..Len(sorted) |->
            [name |-> sorted[k].name, id |-> sorted[k].id, distance |-> sorted[k].distanceKm]]

\* searchLocation with coordinates in the location box
searchLocation(q) ==
    /\ Interactive
    /\ isTracked' = FALSE
    /\ groundTarget' = [name |-> "CUSTOM COORDS", query |-> q]
    /\ intercepts' = <<>>
    /\ lastSearch' = [query |-> q]
    /\ SetCache(renderRequests(filteredSatellites, selectedSat))
    /\ UNCHANGED <<loadVars, alive, clockInitPending, satellites, filterVars, effectPending,
                   selectedSat, selectedSatPath, selectedSatPathRef, isTleOutOfRange,
                   tleWarning, selectedSatData, clockVars, uiClockVars, tickVars,
                   lastScannerCheck, scanRadius, sampleVars, futureVars, cycleVars,
                   pendingGeocodes, scriptVars>>

\* place names typed into the location box
PlaceQueries == {"PARIS", "ROME"}
\* what the geocoding request comes to: a place, an empty list, or an
\* error (fetch rejects, response not ok, json() rejects)
GeocodeOutcomes == {"found", "empty", "error"}

\* searchLocation with a place name in the location box, up to await fetch(url)
GeocodeStart(q) ==
    /\ Interactive
    /\ q \notin pendingGeocodes
    /\ pendingGeocodes' = pendingGeocodes \cup {q}
    /\ lastSearch' = [query |-> q]
    /\ UNCHANGED <<loadVars, alive, clockInitPending, satellites, cacheVars, filterVars,
                   effectPending, selVars, clockVars, uiClockVars, tickVars, scanVars,
                   sampleVars, futureVars, cycleVars, scriptVars>>

\* the rest of that searchLocation call, once its fetch is answered
GeocodeRespond(q, outcome) ==
    /\ alive
    /\ q \in pendingGeocodes
    /\ pendingGeocodes' = pendingGeocodes \ {q}
    /\ IF outcome = "found"
       THEN /\ isTracked' = FALSE
            /\ groundTarget' = [name |-> q, query |-> q]
            /\ intercepts' = <<>>
            /\ SetCache(renderRequests(filteredSatellites, selectedSat))
       ELSE UNCHANGED <<isTracked, groundTarget, intercepts, cacheVars>>
    /\ UNCHANGED <<loadVars, alive, clockInitPending, satellites, filterVars, effectPending,
                   selectedSat, selectedSatPath, selectedSatPathRef, isTleOutOfRange,
                   tleWarning, selectedSatData, clockVars, uiClockVars, tickVars,
                   lastScannerCheck, scanRadius, sampleVars, futureVars, cycleVars,
                   lastSearch, scriptVars>>

\* ------------------------------------------------------------------ scanner loop
\* Source lists of a cycle: how many entries, and which of the entries at
\* the first position and around position 1000 are near the target.
CyclePositions == {1, SCAN_LIMIT - 1, SCAN_LIMIT, SCAN_LIMIT + 1}
CycleInputs == [len : {SCAN_LIMIT - 1, SCAN_LIMIT + 1}, near : SUBSET CyclePositions]

\* entry k of the source list, with its distance from the target
cycleEntry(input, k) ==
    [name |-> <<"SAT", k>>, id |-> 3 * (k - 1),
     distanceKm |-> IF k \notin input.near THEN 900
                    ELSE IF k > SCAN_LIMIT THEN 50
                    ELSE IF k = 1 THEN 300 ELSE 100]

\* the scanner block of onTick is entered: sourceList, subsetToCheck, found = []
CycleStart(input) ==
    /\ groundTarget # Null
    /\ cycleI = 0
    /\ cycleInput' = input
    /\ cycleI' = 1
    /\ cycleFound' = <<>>
    /\ UNCHANGED <<loadVars, alive, clockInitPending, satellites, cacheVars, filterVars,
                   effectPending, selVars, clockVars, uiClockVars, tickVars, scanVars,
                   sampleVars, futureVars, geocodeVars, scriptVars>>

\* one pass of for (const sat of subsetToCheck)
CycleStep ==
    /\ cycleI >= 1
    /\ cycleI <= sliceEnd(cycleInput.len)
    /\ LET sat == cycleEntry(cycleInput, cycleI)
       IN  cycleFound' = (IF sat.distanceKm < scanRadius
                          THEN Append(cycleFound, [name |-> sat.name, id |-> sat.id,
                                                   distanceKm |-> sat.distanceKm])
                          ELSE cycleFound)
    /\ cycleI' = cycleI + 1
    /\ UNCHANGED <<loadVars, alive, clockInitPending, satellites, cacheVars, filterVars,
                   effectPending, selVars, clockVars, uiClockVars, tickVars, scanVars,
                   sampleVars, futureVars, cycleInput, geocodeVars, scriptVars>>

\* after the loop: found.sort(...) and setIntercepts(found.map(...))
CycleEnd ==
    /\ cycleI >= 1
    /\ cycleI > sliceEnd(cycleInput.len)
    /\ LET sorted == sortByDistance(cycleFound)
       IN  intercepts' = [k \in 1..Len(sorted) |->
                             [name |-> sorted[k].name, id |-> sorted[k].id,
                              distance |-> sorted[k].distanceKm]]
    /\ cycleI' = 0
    /\ UNCHANGED <<loadVars, alive, clockInitPending, satellites, cacheVars, filterVars,
                   effectPending, selVars, clockVars, uiClockVars, tickVars, groundTarget,
                   lastScannerCheck, scanRadius, sampleVars, futureVars, cycleInput,
                   cycleFound, geocodeVars, scriptVars>>

\* values of the range slider (min 50, max 5000, step 50)
RadiusInputs == {300, 500}

\* the range slider of the ground-target panel: setScanRadius(Number(value))
setScanRadius(r) ==
    /\ Interactive
    /\ groundTarget # Null
    /\ r # scanRadius
    /\ scanRadius' = r
    /\ SetCache(renderRequests(filteredSatellites, selectedSat))
    /\ UNCHANGED <<loadVars, alive, clockInitPending, satellites, filterVars, effectPending,
                   selVars, clockVars, uiClockVars, tickVars, groundTarget, intercepts,
                   lastScannerCheck, sampleVars, futureVars, cycleVars, geocodeVars, scriptVars>>

\* a click on entry k of the intercept list
ClickIntercept(k) ==
    /\ Interactive
    /\ groundTarget # Null
    /\ k \in 1..Len(intercepts)
    /\ selectSatelliteById(intercepts[k].id)
    /\ UNCHANGED <<loadVars, scanVars, sampleVars, futureVars, cycleVars, geocodeVars, scriptVars, alive, clockInitPending, satellites, filterVars,
                   clockVars, uiClockVars, tickVars>>

\* ------------------------------------------------------------------ frame
\* Clock.tick of the render loop after dt seconds, then the onTick listener
Tick(dt) ==
    /\ Interactive
    /\ ElapsedAfter(dt)
    /\ now' = now + dt
    /\ clockTime' = (IF shouldAnimate THEN clockTime + dt * clockMultiplier ELSE clockTime)
    /\ LET refresh == now' - lastTickTime > UI_REFRESH_MS \div 1000
           scan == groundTarget # Null /\ now' - lastScannerCheck > SCAN_INTERVAL_MS \div 1000
           jsDate == clockTime'
           out == IF selectedSat # Null THEN isOutOfRange(jsDate, selectedSat) ELSE FALSE
           resample == out # isTleOutOfRange /\ ~out /\ selectedSat # Null
           m == IF resample THEN calculatePreciseMovement(selectedSat, jsDate)
                ELSE [sampled |-> FALSE, path |-> Null]
           u == IF selectedSat # Null THEN updateInfoPanel(selectedSat, jsDate)
                ELSE [published |-> FALSE, data |-> Null]
           uiAsked == IF ~refresh \/ selectedSat = Null THEN <<>>
                      ELSE <<selectedSat>>
                           \o (IF resample THEN <<selectedSat>> ELSE <<>>)
                           \o <<selectedSat>>
           scanAsked == IF scan THEN scanSubset ELSE <<>>
           rendered == IF refresh \/ scan
                       THEN renderRequests(filteredSatellites, selectedSat) ELSE <<>>
       IN  /\ IF refresh
              THEN /\ lastTickTime' = now'
                   /\ isTleOutOfRange' = out
                   /\ IF out # isTleOutOfRange /\ out
                      THEN selectedSatPath' = Null /\ selectedSatPathRef' = Null
                      ELSE /\ selectedSatPath' = (IF m.sampled THEN m.path ELSE selectedSatPath)
                           /\ selectedSatPathRef' =
                                  (IF m.sampled THEN m.path ELSE selectedSatPathRef)
                   /\ tleWarning' = out
                   /\ selectedSatData' = (IF u.published THEN u.data ELSE selectedSatData)
              ELSE UNCHANGED <<lastTickTime, isTleOutOfRange, selectedSatPath,
                               selectedSatPathRef, tleWarning, selectedSatData>>
           /\ IF scan
              THEN /\ lastScannerCheck' = now'
                   /\ intercepts' = scanCycle(jsDate)
              ELSE UNCHANGED <<lastScannerCheck, intercepts>>
           /\ SetCache(uiAsked \o scanAsked \o rendered)
    /\ UNCHANGED <<loadVars, alive, clockInitPending, satellites, filterVars, effectPending,
                   selectedSat, isTracked, clockMultiplier, shouldAnimate, uiClockVars,
                   mountedAt, groundTarget, scanRadius, sampleVars, futureVars, cycleVars, geocodeVars, scriptVars>>

\* ------------------------------------------------------------------ update_tle.js
\* longest body and longest file on disk, in lines
MaxBodyLines == 2

\* lines a response body or the file on disk is made of
ScriptLines == {"ISS (ZARYA)", "<html>ISS (ZARYA) not found</html>", "ISS DEB", "<html>"}
ScriptTexts == UNION {[1..n -> ScriptLines] : n \in 0..MaxBodyLines}

\* data.includes('ISS (ZARYA)')
includesReference(data) ==
    \E k \in 1..Len(data) :
        data[k] \in {"ISS (ZARYA)", "<html>ISS (ZARYA) not found</html>"}

\* what fetch(CELESTRAK_URL) comes to: a rejection or a response with a status
FetchAnswers == {"rejects", "200", "404", "500"}
\* response.ok
responseOk(answer) == answer = "200"
\* what response.text() comes to: a rejection or the body
TextAnswers == {[rejects |-> TRUE, data |-> <<>>]}
                   \cup {[rejects |-> FALSE, data |-> d] : d \in ScriptTexts}
\* what fs.writeFileSync comes to: the file written, or an exception that
\* leaves the file as it was, or one after the file was truncated
WriteAnswers == {"written", "throws", "throwsTruncated"}

\* the catch block: process.exit(1)
scriptFailed == [script EXCEPT !.pc = "exited", !.exitCode = 1]

\* downloadTLE() up to await fetch(CELESTRAK_URL)
ScriptStart ==
    /\ script.pc = "idle"
    /\ script' = [script EXCEPT !.pc = "fetching"]
    /\ UNCHANGED <<loadVars, viewVars, outputFile>>

\* the fetch is answered: up to await response.text(), or the catch block
ScriptFetched(answer) ==
    /\ script.pc = "fetching"
    /\ script' = IF answer = "rejects" THEN scriptFailed
                 ELSE IF ~responseOk(answer)
                      THEN [scriptFailed EXCEPT !.response = [status |-> answer]]
                      ELSE [script EXCEPT !.pc = "reading", !.response = [status |-> answer]]
    /\ UNCHANGED <<loadVars, viewVars, outputFile>>

\* a script that writes the body without looking for the reference record
ScriptReadUnchecked(text, write) ==
    /\ script.pc = "reading"
    /\ IF text.rejects
       THEN script' = scriptFailed /\ UNCHANGED outputFile
       ELSE IF write = "written"
            THEN /\ outputFile' = [exists |-> TRUE, data |-> text.data]
                 /\ script' = [script EXCEPT !.pc = "exited", !.data = [text |-> text.data]]
            ELSE /\ outputFile' = (IF write = "throwsTruncated"
                                   THEN [exists |-> TRUE, data |-> <<>>] ELSE outputFile)
                 /\ script' = [scriptFailed EXCEPT !.data = [text |-> text.data]]
    /\ UNCHANGED <<loadVars, viewVars>>

\* the text is read: the reference check, the write, the exit
ScriptRead(text, write) ==
    /\ script.pc = "reading"
    /\ IF text.rejects
       THEN script' = scriptFailed /\ UNCHANGED outputFile
       ELSE IF ~includesReference(text.data)
            THEN /\ script' = [scriptFailed EXCEPT !.data = [text |-> text.data]]
                 /\ UNCHANGED outputFile
            ELSE IF write = "written"
                 THEN /\ outputFile' = [exists |-> TRUE, data |-> text.data]
                      /\ script' = [script EXCEPT !.pc = "exited",
                                                  !.data = [text |-> text.data]]
                 ELSE /\ outputFile' = (IF write = "throwsTruncated"
                                        THEN [exists |-> TRUE, data |-> <<>>]
                                        ELSE outputFile)
                      /\ script' = [scriptFailed EXCEPT !.data = [text |-> text.data]]
    /\ UNCHANGED <<loadVars, viewVars>>

\* the script is not run
InitScript ==
    /\ script = [pc |-> "idle", response |-> Null, data |-> Null, exitCode |-> 0]
    /\ outputFile = [exists |-> FALSE, data |-> <<>>]

\* ------------------------------------------------------------------ specifications
InitView ==
    /\ alive = TRUE
    /\ clockInitPending = TRUE
    /\ satellites = <<>>
    /\ satrecCache = [id \in AllIds |-> Null]
    /\ built = [id \in AllIds |-> 0]
    /\ returned = {}
    /\ requested = {}
    /\ searchTerm = ""
    /\ showAdvFilters = FALSE
    /\ filteredSatellites = <<>>
    /\ effectPending = FALSE
    /\ selectedSat = Null
    /\ selectedSatPath = Null
    /\ selectedSatPathRef = Null
    /\ isTracked = FALSE
    /\ isTleOutOfRange = FALSE
    /\ tleWarning = FALSE
    /\ selectedSatData = Null
    /\ isPaused = FALSE
    /\ multiplier = 10
    /\ mountedAt = now
    /\ clockTime = now
    /\ clockMultiplier = 1
    /\ shouldAnimate = TRUE
    /\ lastTickTime = 0
    /\ groundTarget = Null
    /\ intercepts = <<>>
    /\ lastScannerCheck = 0
    /\ scanRadius = 500
    /\ sampleI = -HISTORY_MINUTES
    /\ sampleProperty = Null
    /\ futureInput = Null
    /\ futureI = FUTURE_MINUTES + FUTURE_STEP
    /\ futurePositions = <<>>
    /\ cycleInput = Null
    /\ cycleI = 0
    /\ cycleFound = <<>>
    /\ pendingGeocodes = {}
    /\ lastSearch = Null

\* the file is missing or unreadable, or is the served file
InitServed(n) ==
    /\ blocks = ServedBlocks(n)
    /\ file \in [response : Responses, text : {FileText(blocks)}]
    /\ fetchPc = "idle"
    /\ fetchResult = <<>>

fetchSatellites ==
    \/ FetchStart
    \/ FetchThrows
    \/ FetchResponds
    \/ TextResolves
    \/ TextThrows

\* The loader alone, over every file of up to MaxBlocks blocks.
InitLoad ==
    /\ blocks \in BlockSeqs
    /\ file \in [response : Responses, text : {FileText(blocks)}]
    /\ fetchPc = "idle"
    /\ fetchResult = <<>>
    /\ now = EpochBravo + 2 * Day
    /\ InitView
    /\ InitScript
    /\ sampleInput = Null

NextLoad == fetchSatellites

SpecLoad == InitLoad /\ [][NextLoad]_vars

\* C1: fetchSatellites never rejects; when the fetch throws, the response is
\* not OK or reading the body throws, the promise resolves to the catalog
\* parsed from the built-in fallback: exactly one record, the ISS, with its
\* name, line1 and line2.
C1_FallbackNeverRejects ==
    /\ fetchPc \in {"idle", "fetching", "reading", "resolved", "delivered"}
    /\ (fetchPc \in {"resolved", "delivered"} /\ file.response # "ok")
         => /\ Len(fetchResult) = 1
            /\ fetchResult[1].name = <<"ISS (ZARYA)">>
            /\ fetchResult[1].line1 =
                   <<"1 25544U 98067A   24036.56038380  .00014798  00000-0  26998-3 0  9993">>
            /\ fetchResult[1].line2 =
                   <<"2 25544  51.6401 195.9620 0004567 114.7672 344.9754 15.49651543437637">>

C1_Witness ==
    /\ fetchPc = "resolved"
    /\ file.response = "textThrows"
    /\ blocks # <<>>
    /\ Len(fetchResult) = 1

\* the (name, line1, line2) of each record, in order
Triples(sats) == [k \in 1..Len(sats) |-> <<sats[k].name, sats[k].line1, sats[k].line2>>]

\* the (name, line1, line2) of each block that has all three lines, in order
RECURSIVE CompleteBlocks(_)
CompleteBlocks(bs) ==
    IF bs = <<>> THEN <<>>
    ELSE (IF Head(bs).parts = Parts
          THEN << << <<NameOf(Head(bs).sat)>>, <<Line1Of(Head(bs).sat)>>,
                     <<Line2Of(Head(bs).sat)>> >> >>
          ELSE <<>>)
         \o CompleteBlocks(Tail(bs))

Unblank(bs) == [k \in 1..Len(bs) |-> [bs[k] EXCEPT !.blank = FALSE]]

\* C4: load drops every block with fewer than 3 usable lines and returns
\* every complete block as one record with its own name, line1 and line2,
\* wherever the incomplete block occurs; blank lines never change the result.
C4_CompleteBlocksKept ==
    (fetchPc = "resolved" /\ file.response = "ok")
        => /\ Triples(fetchResult) = CompleteBlocks(blocks)
           /\ fetchResult = parseTLE(FileText(Unblank(blocks)))

\* an incomplete block before a complete one has been parsed
C4_Witness ==
    /\ fetchPc = "resolved"
    /\ file.response = "ok"
    /\ Len(blocks) = 2
    /\ blocks[1].parts = {"name"}
    /\ blocks[2].parts = Parts

\* The session: catalog, filters, selection, record cache, frames.
Init ==
    /\ InitServed(4)
    /\ now = EpochBravo + 2 * Day
    /\ InitView
    /\ InitScript
    /\ sampleInput = Null

Next ==
    \/ fetchSatellites
    \/ LoadThen
    \/ ClockInitTimer
    \/ \E q \in Queries : SetSearchTerm(q)
    \/ ToggleAdvFilters
    \/ AutoDeselectEffect
    \/ \E satId \in AllIds : ClickSatellite(satId)
    \/ ClickBackground
    \/ ToggleTrack
    \/ \E d \in SessionDates : handleDateChange(d)
    \/ \E dt \in TickSeconds : Tick(dt)

Spec == Init /\ [][Next]_vars

\* the entry's lines are an element pair the library builds a record from
ValidElements(sat) ==
    LET r == twoline2satrec(sat.line1, sat.line2)
    IN  ~r.threw /\ ~r.jdsatepoch.nan

\* C2: every entry of the loaded catalog whose element lines are valid,
\* the entry with the lowest identifier and the single fallback record
\* included, has a propagation record once getSatrec was asked for it.
C2_ValidEntryHasRecord ==
    \A k \in 1..Len(satellites) :
        (ValidElements(satellites[k]) /\ satellites[k].id \in requested)
            => satrecCache[satellites[k].id] # Null

\* C3: a propagation record is constructed at most once per identifier, and
\* every record getSatrec answers is the one cached by the first request.
C3_RecordBuiltOnce ==
    /\ \A id \in AllIds : built[id] <= 1
    /\ \A r \in returned : r.serial = 1 /\ satrecCache[r.id] = r

\* the record of entry 3 was requested by the advanced filter, by the
\* selection (epoch lookup, path sampling, info panel) and by the render
C3_Witness ==
    /\ showAdvFilters
    /\ selectedSat # Null
    /\ selectedSat.id = 3
    /\ selectedSatPath # Null
    /\ selectedSatData # Null
    /\ built[3] = 1
    /\ lastTickTime > 0

\* The clock controls, with a selection.
NextClock ==
    \/ fetchSatellites
    \/ LoadThen
    \/ ClockInitTimer
    \/ AutoDeselectEffect
    \/ \E satId \in AllIds : ClickSatellite(satId)
    \/ ClickBackground
    \/ togglePlay
    \/ \E val \in SpeedInputs : setSpeed(val)
    \/ \E d \in ClockDates : handleDateChange(d)
    \/ \E dt \in TickSeconds : Tick(dt)

InitClock ==
    /\ InitServed(2)
    /\ now = EpochBravo + 2 * Day
    /\ InitView
    /\ InitScript
    /\ sampleInput = Null

SpecClock == InitClock /\ [][NextClock]_vars

\* C7: the clock's rate multiplier is never 0 in any reachable state.
C7_MultiplierNeverZero ==
    /\ multiplier # 0
    /\ clockMultiplier # 0

\* C8: setSpeed with an accepted value m, called while RUNNING or PAUSED,
\* leaves the clock RUNNING with multiplier m and changes neither the
\* current instant nor the selection.
C8_SetSpeedRuns ==
    [][\A val \in SpeedInputs :
          (setSpeed(val) /\ ~parseFloat(val).nan)
              => /\ shouldAnimate'
                 /\ ~isPaused'
                 /\ clockMultiplier' = parseFloat(val).v
                 /\ multiplier' = parseFloat(val).v
                 /\ clockTime' = clockTime
                 /\ UNCHANGED selVars]_vars

\* the speed was set to 100 with an entry selected
C8_Witness ==
    /\ multiplier = 100
    /\ clockMultiplier = 100
    /\ shouldAnimate
    /\ ~isPaused
    /\ selectedSat # Null
    /\ clockTime = EpochBravo + 3 * Day

\* C9: togglePlay flips the clock between RUNNING and PAUSED (so that two
\* consecutive calls restore the running state) and changes nothing else:
\* the instant, the multiplier, the selection and the orbit path stay.
C9_TogglePlayFlipsOnly ==
    [][togglePlay
          => /\ shouldAnimate' = ~shouldAnimate
             /\ clockTime' = clockTime
             /\ clockMultiplier' = clockMultiplier
             /\ multiplier' = multiplier
             /\ UNCHANGED selVars]_vars

\* the clock was paused at speed 100 with an entry and its path selected
C9_Witness ==
    /\ isPaused
    /\ ~shouldAnimate
    /\ multiplier = 100
    /\ selectedSat # Null
    /\ selectedSatPath # Null

\* C10: the running flag changes only through play/pause: a time-set
\* operation performed while the clock is PAUSED leaves it PAUSED.
C10_TimeSetKeepsPaused ==
    [][\A d \in ClockDates :
          (handleDateChange(d) /\ ~shouldAnimate) => ~shouldAnimate']_vars

\* Freshness and validity over the instants around the thresholds, for two
\* wall-clock instants of the mount.
InitFresh ==
    /\ InitServed(2)
    /\ now \in {EpochBravo + 2 * Day, EpochBravo + 40 * Day}
    /\ InitView
    /\ InitScript
    /\ sampleInput = Null

NextFresh ==
    \/ fetchSatellites
    \/ LoadThen
    \/ ClockInitTimer
    \/ AutoDeselectEffect
    \/ \E satId \in AllIds : ClickSatellite(satId)
    \/ \E d \in FreshDates : handleDateChange(d)
    \/ \E dt \in SlowFrames : Tick(dt)

SpecFresh == InitFresh /\ [][NextFresh]_vars

\* The selection around the end of the validity horizon, with no filter
\* input: the filtered list stays the whole catalog.
SelectDates == {EpochBravo + 30 * Day - 1, EpochBravo + 31 * Day}

InitSelect ==
    /\ InitServed(2)
    /\ now = EpochBravo + 40 * Day
    /\ InitView
    /\ InitScript
    /\ sampleInput = Null

NextSelect ==
    \/ fetchSatellites
    \/ LoadThen
    \/ ClockInitTimer
    \/ AutoDeselectEffect
    \/ \E satId \in AllIds : ClickSatellite(satId)
    \/ ClickBackground
    \/ ToggleTrack
    \/ \E d \in SelectDates : handleDateChange(d)
    \/ \E dt \in TickSeconds : Tick(dt)

SpecSelect == InitSelect /\ [][NextSelect]_vars

\* The scanner over a catalog whose nearest entry comes last: DELTA (id 0),
\* BRAVO (3), CHARLIE (6), ALPHA (9), with radius and name-filter changes
\* between two scan cycles.
RadarBlocks ==
    [k \in 1..4 |-> [sat |-> <<4, 2, 3, 1>>[k], parts |-> Parts, blank |-> FALSE, pad |-> FALSE]]
RadarQueries == {"", "BRAVO"}

InitRadar ==
    /\ blocks = RadarBlocks
    /\ file = [response |-> "ok", text |-> FileText(blocks)]
    /\ fetchPc = "idle"
    /\ fetchResult = <<>>
    /\ now = EpochBravo + 2 * Day
    /\ InitView
    /\ InitScript
    /\ sampleInput = Null

NextRadar ==
    \/ FetchStart
    \/ FetchResponds
    \/ TextResolves
    \/ LoadThen
    \/ ClockInitTimer
    \/ \E q \in RadarQueries : SetSearchTerm(q)
    \/ \E q \in LocationQueries : searchLocation(q)
    \/ \E r \in RadiusInputs : setScanRadius(r)
    \/ \E dt \in TickSeconds : Tick(dt)

SpecRadar == InitRadar /\ [][NextRadar]_vars

\* The scanner's loop alone, over source lists of 999 and 1001 entries.
InitCycle ==
    /\ blocks = ServedBlocks(1)
    /\ file = [response |-> "ok", text |-> FileText(blocks)]
    /\ fetchPc = "idle"
    /\ fetchResult = <<>>
    /\ now = EpochBravo + 2 * Day
    /\ InitView
    /\ InitScript
    /\ sampleInput = Null

NextCycle ==
    \/ \E q \in LocationQueries : searchLocation(q)
    \/ \E input \in CycleInputs : CycleStart(input)
    \/ CycleStep
    \/ CycleEnd

SpecCycle == InitCycle /\ [][NextCycle]_vars

\* Location searches by coordinates and by place name, whose geocoding
\* requests are answered in any order, with the scanner running.
InitSearch ==
    /\ blocks = ServedBlocks(3)
    /\ file = [response |-> "ok", text |-> FileText(blocks)]
    /\ fetchPc = "idle"
    /\ fetchResult = <<>>
    /\ now = EpochBravo + 2 * Day
    /\ InitView
    /\ InitScript
    /\ sampleInput = Null

NextSearch ==
    \/ FetchStart
    \/ FetchResponds
    \/ TextResolves
    \/ LoadThen
    \/ \E q \in LocationQueries : searchLocation(q)
    \/ \E q \in PlaceQueries : GeocodeStart(q)
    \/ \E q \in PlaceQueries, outcome \in GeocodeOutcomes : GeocodeRespond(q, outcome)
    \/ \E dt \in SlowFrames : Tick(dt)

SpecSearch == InitSearch /\ [][NextSearch]_vars

\* A session late enough for CHARLIE's propagation to throw, with the date
\* picker leading back to where it only gives no position: selection,
\* ground target and frames.
TelemetryDates == {EpochCharlie + 26 * Day}

InitTelemetry ==
    /\ blocks = RadarBlocks
    /\ file = [response |-> "ok", text |-> FileText(blocks)]
    /\ fetchPc = "idle"
    /\ fetchResult = <<>>
    /\ now = EpochCharlie + 51 * Day
    /\ InitView
    /\ InitScript
    /\ sampleInput = Null

NextTelemetry ==
    \/ FetchStart
    \/ FetchResponds
    \/ TextResolves
    \/ LoadThen
    \/ ClockInitTimer
    \/ AutoDeselectEffect
    \/ \E satId \in AllIds : ClickSatellite(satId)
    \/ \E q \in LocationQueries : searchLocation(q)
    \/ \E d \in TelemetryDates : handleDateChange(d)
    \/ \E dt \in TickSeconds : Tick(dt)

SpecTelemetry == InitTelemetry /\ [][NextTelemetry]_vars

\* One run of the download script over every file on disk, every answer of
\* the server and of the file system.
InitUpdate ==
    /\ blocks = <<>>
    /\ file = [response |-> "ok", text |-> FileText(blocks)]
    /\ fetchPc = "idle"
    /\ fetchResult = <<>>
    /\ now = EpochBravo + 2 * Day
    /\ InitView
    /\ sampleInput = Null
    /\ script = [pc |-> "idle", response |-> Null, data |-> Null, exitCode |-> 0]
    /\ outputFile \in {[exists |-> FALSE, data |-> <<>>]}
                          \cup {[exists |-> TRUE, data |-> d] : d \in ScriptTexts}

NextUpdate ==
    \/ ScriptStart
    \/ \E answer \in FetchAnswers : ScriptFetched(answer)
    \/ \E text \in TextAnswers, write \in WriteAnswers : ScriptRead(text, write)

SpecUpdate == InitUpdate /\ [][NextUpdate]_vars

\* Selection, clearing, name filter, tracking button and ground-target
\* search over a catalog of three entries.
InitFollow ==
    /\ blocks = ServedBlocks(3)
    /\ file = [response |-> "ok", text |-> FileText(blocks)]
    /\ fetchPc = "idle"
    /\ fetchResult = <<>>
    /\ now = EpochBravo + 2 * Day
    /\ InitView
    /\ InitScript
    /\ sampleInput = Null

NextFollow ==
    \/ FetchStart
    \/ FetchResponds
    \/ TextResolves
    \/ LoadThen
    \/ ClockInitTimer
    \/ \E q \in Queries : SetSearchTerm(q)
    \/ AutoDeselectEffect
    \/ \E satId \in AllIds : ClickSatellite(satId)
    \/ ClickBackground
    \/ ToggleTrack
    \/ \E q \in LocationQueries : searchLocation(q)

SpecFollow == InitFollow /\ [][NextFollow]_vars

\* A selected object under a clock sped up from the custom speed box, far
\* enough for the clock to cross the four hours sampled around the selection.
WindowSpeeds == {"10", "10000"}

InitWindow ==
    /\ blocks = ServedBlocks(2)
    /\ file = [response |-> "ok", text |-> FileText(blocks)]
    /\ fetchPc = "idle"
    /\ fetchResult = <<>>
    /\ now = EpochBravo + 2 * Day
    /\ InitView
    /\ InitScript
    /\ sampleInput = Null

NextWindow ==
    \/ FetchStart
    \/ FetchResponds
    \/ TextResolves
    \/ LoadThen
    \/ ClockInitTimer
    \/ AutoDeselectEffect
    \/ \E satId \in AllIds : ClickSatellite(satId)
    \/ \E val \in WindowSpeeds : setSpeed(val)
    \/ \E dt \in TickSeconds : Tick(dt)

SpecWindow == InitWindow /\ [][NextWindow]_vars

\* Selection by id over a catalog of two entries, the ids of absent
\* entries included, with the tracking button and frames.
InitLookup ==
    /\ blocks = ServedBlocks(2)
    /\ file = [response |-> "ok", text |-> FileText(blocks)]
    /\ fetchPc = "idle"
    /\ fetchResult = <<>>
    /\ now = EpochBravo + 2 * Day
    /\ InitView
    /\ InitScript
    /\ sampleInput = Null

NextLookup ==
    \/ FetchStart
    \/ FetchResponds
    \/ TextResolves
    \/ LoadThen
    \/ ClockInitTimer
    \/ AutoDeselectEffect
    \/ \E satId \in AllIds : SelectById(satId)
    \/ ToggleTrack
    \/ \E dt \in TickSeconds : Tick(dt)

SpecLookup == InitLookup /\ [][NextLookup]_vars

\* The load against the teardown of the component: every answer of the
\* server over an empty file and files of one and two entries.
InitTeardown ==
    /\ blocks \in {ServedBlocks(n) : n \in 0..2}
    /\ file \in [response : Responses, text : {FileText(blocks)}]
    /\ fetchPc = "idle"
    /\ fetchResult = <<>>
    /\ now = EpochBravo + 2 * Day
    /\ InitView
    /\ InitScript
    /\ sampleInput = Null

NextTeardown ==
    \/ fetchSatellites
    \/ LoadThen
    \/ ClockInitTimer
    \/ Unmount

SpecTeardown == InitTeardown /\ [][NextTeardown]_vars

\* The sampling loop alone, over the answers of satellite.propagate at the
\* first step and at two neighbouring steps of the grid.
MarkedSteps == {-HISTORY_MINUTES, 0, HISTORY_STEP}
SampleCenters == {EpochBravo + 3 * Day}
SampleInputs == [center : SampleCenters, pv : [MarkedSteps -> Outcomes]]

InitSample ==
    /\ InitServed(1)
    /\ now = EpochBravo + 2 * Day
    /\ InitView
    /\ InitScript
    /\ sampleInput \in SampleInputs

NextSample ==
    \/ SampleStart
    \/ SampleStep

SpecSample == InitSample /\ [][NextSample]_vars

\* The future-path callback alone, asked again and again.
InitFuture ==
    /\ InitServed(1)
    /\ now = EpochBravo + 2 * Day
    /\ InitView
    /\ InitScript
    /\ sampleInput = Null

NextFuture ==
    \/ \E input \in FutureInputs : FutureStart(input)
    \/ FutureStep

SpecFuture == InitFuture /\ [][NextFuture]_vars

\* A session with a ground target: the scanner, the intercept list and the
\* selection made from it.
ScanDates == {EpochBravo + 31 * Day}

InitScan ==
    /\ InitServed(3)
    /\ now = EpochBravo + 2 * Day
    /\ InitView
    /\ InitScript
    /\ sampleInput = Null

NextScan ==
    \/ fetchSatellites
    \/ LoadThen
    \/ ClockInitTimer
    \/ \E q \in Queries : SetSearchTerm(q)
    \/ AutoDeselectEffect
    \/ \E satId \in AllIds : ClickSatellite(satId)
    \/ ToggleTrack
    \/ \E q \in LocationQueries : searchLocation(q)
    \/ \E d \in ScanDates : handleDateChange(d)
    \/ \E k \in 1..Len(intercepts) : ClickIntercept(k)
    \/ \E dt \in SlowFrames : Tick(dt)

SpecScan == InitScan /\ [][NextScan]_vars

\* the epoch written in the element lines of entry satId
TrueEpoch(satId) ==
    twoline2satrec(find(satellites, satId).line1, find(satellites, satId).line2).jdsatepoch.v

\* C5: the freshness label is a function of the age (instant minus epoch)
\* with exact boundaries: below 3 days FRESH (every negative age included),
\* from 3 to below 14 days OK, from 14 to below 30 days OLD, from 30 days
\* on VERY OLD; epoch + 1 day is FRESH.
C5_FreshnessBands ==
    (selectedSatData # Null /\ ~selectedSatData.tleAgeDays.nan)
        => LET age == selectedSatData.at - TrueEpoch(selectedSatData.satId)
               label == selectedSatData.tleAgeLabel
           IN  /\ (age < 3 * Day) <=> (label = "FRESH")
               /\ (3 * Day <= age /\ age < 14 * Day) <=> (label = "OK")
               /\ (14 * Day <= age /\ age < 30 * Day) <=> (label = "OLD")
               /\ (30 * Day <= age) <=> (label = "VERY OLD")
               /\ (age = Day) => (label = "FRESH")

\* the info panel shows an age of exactly 3 days
C5_Witness ==
    /\ selectedSatData # Null
    /\ selectedSatData.satId = 3
    /\ selectedSatData.at = EpochBravo + 3 * Day
    /\ selectedSatData.tleAgeLabel = "OK"

\* C6: the validity flag of a tracked object is true exactly when the
\* instant is at most epoch + 30 days, whatever the wall clock: selecting
\* an entry with valid elements, or setting the instant while one is
\* selected, leaves the out-of-range flag set exactly when the instant is
\* past epoch + 30 days.
C6_ValidWithinHorizon ==
    [][/\ \A id \in AllIds :
            (ClickSatellite(id) /\ ValidElements(find(satellites, id)))
                => (isTleOutOfRange' <=> (clockTime > TrueEpoch(id) + 30 * Day))
       /\ \A d \in FreshDates :
            (handleDateChange(d) /\ selectedSat # Null /\ ValidElements(selectedSat))
                => (isTleOutOfRange' <=> (clockTime' > TrueEpoch(selectedSat.id) + 30 * Day))]_vars

C12_InstantNotBeforeEpoch ==
    [][\A d \in FreshDates :
          (handleDateChange(d) /\ selectedSat # Null /\ getTleEpochDate(selectedSat).known)
              => clockTime' >= getTleEpochDate(selectedSat).t]_vars

\* C13: selecting an id of the view ends with that entry selected and its
\* validity computed at the clock's instant: in range, a path sampled for
\* the entry around that instant is held and no warning is set; out of
\* range, no path is held and the warning is set.
C13_SelectTracksWithPath ==
    [][\A id \in AllIds :
          (ClickSatellite(id) /\ ValidElements(find(satellites, id)))
              => /\ selectedSat' # Null
                 /\ selectedSat'.id = id
                 /\ IF ~isTleOutOfRange'
                    THEN /\ selectedSatPath' # Null
                         /\ selectedSatPath'.satId = id
                         /\ selectedSatPath'.center = clockTime
                         /\ selectedSatPathRef' = selectedSatPath'
                         /\ ~tleWarning'
                    ELSE /\ selectedSatPath' = Null
                         /\ selectedSatPathRef' = Null
                         /\ tleWarning']_vars

\* C14: a selection of an id that is in the catalog but not in the filtered
\* view (a click in the intercept list) never makes that id the selected
\* satellite, not even until the next effect runs, and publishes no telemetry.
C14_HiddenIdNeverSelected ==
    [][\A k \in 1..Len(intercepts) :
          (ClickIntercept(k) /\ intercepts[k].id \notin ClickableIds)
              => /\ ~(selectedSat' # Null /\ selectedSat'.id = intercepts[k].id)
                 /\ selectedSatData' = selectedSatData]_vars

\* C15: selecting an id while the follow flag is set for another selected
\* satellite clears the follow flag.
C15_SelectClearsFollow ==
    [][\A id \in AllIds :
          (ClickSatellite(id) /\ isTracked /\ selectedSat # Null /\ selectedSat.id # id)
              => ~isTracked']_vars

\* C16: a single click on the background ends with no selected satellite,
\* no orbit path in the state or in the path ref, the follow flag off and a
\* null telemetry snapshot; the clock's instant, multiplier and running flag
\* are what they were.
C16_ClearReturnsToIdle ==
    [][ClickBackground
           => /\ selectedSat' = Null
              /\ selectedSatPath' = Null
              /\ selectedSatPathRef' = Null
              /\ ~isTracked'
              /\ selectedSatData' = Null
              /\ UNCHANGED <<clockTime, clockMultiplier, shouldAnimate>>]_vars

\* the selection was cleared while the out-of-range warning of the cleared
\* satellite is still up; with no filter input only a background click
\* clears a selection
C16_Witness ==
    /\ selectedSat = Null
    /\ selectedSatPath = Null
    /\ selectedSatPathRef = Null
    /\ ~isTracked
    /\ selectedSatData = Null
    /\ tleWarning
    /\ clockTime >= EpochBravo + 31 * Day

\* C17: when the filtered list changes and no longer contains the selected
\* satellite, the effect that follows ends with no selection, no path, the
\* follow flag off and a null telemetry snapshot; when the new filtered list
\* still contains it, the selection, the path and the follow flag are what
\* they were. Once the effect has run, a selected satellite is in the
\* filtered list.
C17_FilterChangeDeselects ==
    /\ []((~effectPending /\ selectedSat # Null) => InList(filteredSatellites, selectedSat))
    /\ [][/\ (\E q \in Queries : SetSearchTerm(q))
                  => /\ effectPending' = (selectedSat # Null)
                     /\ UNCHANGED <<selectedSat, selectedSatPath, selectedSatPathRef, isTracked>>
          /\ AutoDeselectEffect
                  => IF selectedSat # Null /\ ~InList(filteredSatellites, selectedSat)
                     THEN /\ selectedSat' = Null
                          /\ selectedSatPath' = Null
                          /\ selectedSatPathRef' = Null
                          /\ ~isTracked'
                          /\ selectedSatData' = Null
                     ELSE UNCHANGED <<selectedSat, selectedSatPath, selectedSatPathRef,
                                      isTracked>>]_vars

\* the selected satellite left the filtered list and the effect cleared the
\* selection; its out-of-range warning is still up
C17_Witness ==
    /\ ~effectPending
    /\ selectedSat = Null
    /\ selectedSatData = Null
    /\ ~isTracked
    /\ tleWarning
    /\ searchTerm = "ZZZ"
    /\ filteredSatellites = <<>>

\* the search term changed to one that still matches the selected satellite,
\* which keeps its path and the follow flag
C17_WitnessKept ==
    /\ ~effectPending
    /\ selectedSat # Null
    /\ selectedSat.id = 3
    /\ searchTerm = "BRAVO"
    /\ selectedSatPath # Null
    /\ isTracked

\* C18: with a satellite selected, each UI refresh of onTick recomputes
\* whether the clock's instant is out of range for it; when it comes back
\* into range the path is sampled again for it around the clock's instant,
\* when it goes out of range the held path is discarded and the selection
\* kept, and when nothing changed the held path is left as it is.
C18_TickFollowsValidity ==
    [][\A dt \in TickSeconds :
          (Tick(dt) /\ selectedSat # Null /\ now' - lastTickTime > UI_REFRESH_MS \div 1000)
              => LET out == isOutOfRange(clockTime', selectedSat)
                 IN  /\ isTleOutOfRange' = out
                     /\ selectedSat' = selectedSat
                     /\ (isTleOutOfRange /\ ~out)
                            => /\ selectedSatPath' # Null
                               /\ selectedSatPath'.satId = selectedSat.id
                               /\ selectedSatPath'.center = clockTime'
                               /\ selectedSatPathRef' = selectedSatPath'
                     /\ (~isTleOutOfRange /\ out)
                            => /\ selectedSatPath' = Null
                               /\ selectedSatPathRef' = Null
                     /\ (isTleOutOfRange = out)
                            => UNCHANGED <<selectedSatPath, selectedSatPathRef>>]_vars

\* entry 3 is selected and the running clock has passed its epoch + 30 days
\* by less than a frame: the refresh found it out of range and dropped the path
C18_Witness ==
    /\ selectedSat # Null
    /\ selectedSat.id = 3
    /\ lastTickTime = now
    /\ clockTime > EpochBravo + 30 * Day
    /\ clockTime <= EpochBravo + 30 * Day + 20
    /\ isTleOutOfRange
    /\ selectedSatPath = Null
    /\ selectedSatPathRef = Null

\* entry 3 was out of range and the clock was put back to the wall-clock
\* instant: the next refresh found it in range and sampled its path there
C18_WitnessResampled ==
    /\ selectedSat # Null
    /\ selectedSat.id = 3
    /\ lastTickTime = now
    /\ now > mountedAt
    /\ ~isTleOutOfRange
    /\ selectedSatPath # Null
    /\ selectedSatPath.center = clockTime
    /\ clockTime > mountedAt
    /\ clockTime <= mountedAt + 20

\* C19: in every reachable state in which the clock's instant is out of
\* range for the selected satellite, no orbit path is held for it, in the
\* state or in the path ref, so that only the plain marker is drawn; this
\* holds between two UI refreshes as well.
C19_NoPathWhenOutOfRange ==
    (selectedSat # Null /\ isOutOfRange(clockTime, selectedSat))
        => /\ selectedSatPath = Null
           /\ selectedSatPathRef = Null
           /\ isTleOutOfRange

\* the steps of the grid: -240, -238, ..., 240 minutes
GridSteps == {i \in (-HISTORY_MINUTES)..HISTORY_MINUTES : (i + HISTORY_MINUTES) % HISTORY_STEP = 0}

\* C20: the sampled path holds exactly the instants center + i minutes of the
\* grid -240, -238, ..., +240 at which the propagation gave a position, in
\* strictly increasing order; a step without a position, with a NaN position
\* or with an exception is left out and the steps after it are still taken;
\* there are at most 241 samples, all within 4 hours of the center.  While
\* the loop runs the same holds of the steps it has passed.
C20_SamplesAreTheGoodGridSteps ==
    sampleProperty # Null
        => LET times == sampleProperty.times
               c == sampleInput.center
               good == {i \in GridSteps : i < sampleI /\ pvAt(sampleInput, i) = "position"}
           IN  /\ {times[k] : k \in 1..Len(times)} = {c + i * 60 : i \in good}
               /\ \A k \in 1..(Len(times) - 1) : times[k] < times[k + 1]
               /\ Len(times) = Cardinality(good)
               /\ Len(times) <= 241
               /\ \A k \in 1..Len(times) :
                      times[k] >= c - 4 * 60 * 60 /\ times[k] <= c + 4 * 60 * 60

\* the loop has ended; the first step gave no position, step 0 threw and
\* step 2 gave NaN: the path holds the 238 other steps, the last one included
C20_Witness ==
    /\ sampleProperty # Null
    /\ sampleI > HISTORY_MINUTES
    /\ sampleInput.pv[-HISTORY_MINUTES] = "none"
    /\ sampleInput.pv[0] = "throws"
    /\ sampleInput.pv[HISTORY_STEP] = "nan"
    /\ Len(sampleProperty.times) = 238
    /\ sampleProperty.times[1] = sampleInput.center - 238 * 60
    /\ sampleProperty.times[238] = sampleInput.center + 240 * 60

\* the steps of the future grid: 0, 1, ..., 90 minutes
FutureSteps == {i \in 0..FUTURE_MINUTES : i % FUTURE_STEP = 0}

\* C21: for the horizon of 90 minutes at a 1-minute step a request never
\* returns more positions than the number of steps, 90 / 1, whatever the
\* start instant and whichever steps fail.
C21_AtMostHorizonOverStep ==
    Len(futurePositions) <= FUTURE_MINUTES \div FUTURE_STEP

\* C21 as amended: a request returns at most 91 positions, one for each
\* minute from the instant passed to that instant + 90 minutes, both ends
\* included, at which the propagation gave a position, in that order; what it
\* returns depends on the instant and the propagation of this request only.
C21_AtMostOnePerGridInstant ==
    futureInput # Null
        => LET good == {i \in FutureSteps :
                           i < futureI /\ pvAt(futureInput, i) = "position"}
           IN  /\ Len(futurePositions) <= FUTURE_MINUTES \div FUTURE_STEP + 1
               /\ Len(futurePositions) = Cardinality(good)
               /\ {futurePositions[k].at : k \in 1..Len(futurePositions)}
                      = {futureInput.center + i * 60 : i \in good}
               /\ \A k \in 1..(Len(futurePositions) - 1) :
                      futurePositions[k].at < futurePositions[k + 1].at

\* a request for the later instant has ended with all 91 positions
C21_Witness ==
    /\ futureInput # Null
    /\ futureI > FUTURE_MINUTES
    /\ futureInput.center = EpochBravo + 3 * Day + 60
    /\ Len(futurePositions) = 91
    /\ futurePositions[1].at = futureInput.center
    /\ futurePositions[91].at = futureInput.center + 90 * 60

\* the propagation of the entry's elements to instant t gives a position
Propagates(sat, t) ==
    LET r == twoline2satrec(sat.line1, sat.line2)
    IN  ~r.threw /\ propagate([rec |-> r], t).position

\* the entries of the scanned list that qualify at instant t
Qualifying(t) ==
    {k \in 1..Len(scanSubset) :
        /\ Propagates(scanSubset[k], t)
        /\ distanceKm(scanSubset[k], groundTarget, t) < scanRadius}

\* C22: the list a scan cycle sets holds exactly the scanned objects whose
\* propagation succeeded and whose distance to the ground target is below
\* the radius, each once; nothing else of the previous list is kept.
C22_ScanResultExact ==
    [][\A dt \in TickSeconds :
          (Tick(dt) /\ groundTarget # Null
                    /\ now' - lastScannerCheck > SCAN_INTERVAL_MS \div 1000)
              => /\ {intercepts'[j].id : j \in 1..Len(intercepts')}
                        = {scanSubset[k].id : k \in Qualifying(clockTime')}
                 /\ Len(intercepts') = Cardinality(Qualifying(clockTime'))]_vars

\* the position of the entry with this id in the scanned list
PositionOf(id) == CHOOSE k \in 1..Len(scanSubset) : scanSubset[k].id = id

\* C23: the list a scan cycle sets is in ascending order of distance, and
\* two objects at the same distance are in the order of the scanned catalog.
C23_SortedStable ==
    [][\A dt \in TickSeconds :
          (Tick(dt) /\ groundTarget # Null
                    /\ now' - lastScannerCheck > SCAN_INTERVAL_MS \div 1000)
              => \A i, j \in 1..Len(intercepts') :
                    i < j => /\ intercepts'[i].distance <= intercepts'[j].distance
                             /\ intercepts'[i].distance = intercepts'[j].distance
                                    => PositionOf(intercepts'[i].id)
                                           < PositionOf(intercepts'[j].id)]_vars

\* a cycle listed ALPHA, the last entry of the catalog, first, then BRAVO
\* and CHARLIE, both at 300 km, in catalog order
C23_Witness ==
    /\ groundTarget # Null
    /\ lastScannerCheck = now
    /\ Len(intercepts) = 3
    /\ intercepts[1].id = 9 /\ intercepts[1].distance = 100
    /\ intercepts[2].id = 3 /\ intercepts[2].distance = 300
    /\ intercepts[3].id = 6 /\ intercepts[3].distance = 300

\* C24: in every reachable state, whatever scan cycles, radius changes and
\* ground-target changes came before, no entry of the intercept list has a
\* distance greater than or equal to the configured radius.
C24_NoEntryBeyondRadius ==
    \A j \in 1..Len(intercepts) : intercepts[j].distance < scanRadius

C26_OwnCadence ==
    [][/\ lastScannerCheck' # lastScannerCheck
              => /\ groundTarget # Null
                 /\ lastScannerCheck' = now'
                 /\ now' - lastScannerCheck > 2
       /\ lastTickTime' # lastTickTime
              => /\ lastTickTime' = now'
                 /\ now' - lastTickTime > 1
       /\ \A dt \in TickSeconds :
              Tick(dt) => /\ (lastScannerCheck' = now')
                              <=> (groundTarget # Null /\ now' - lastScannerCheck > 2)
                          /\ (lastTickTime' = now') <=> (now' - lastTickTime > 1)
                          /\ lastScannerCheck' # now' => intercepts' = intercepts]_vars

\* a second scan cycle has run on a tick that did not refresh the UI
C26_Witness ==
    /\ groundTarget # Null
    /\ lastScannerCheck = now
    /\ lastTickTime < now
    /\ lastTickTime > mountedAt
    /\ now = mountedAt + 4

\* a tick refreshed the UI with a target set and did not scan
C26_WitnessRefreshOnly ==
    /\ groundTarget # Null
    /\ lastTickTime = now
    /\ lastScannerCheck < now
    /\ lastScannerCheck > mountedAt

\* C27: when location searches overlap, a geocoding response of an earlier
\* search that arrives after the search issued last has set its target does
\* not replace that target and does not empty the intercept list computed
\* for it.
C27_StaleResponseIgnored ==
    [][\A q \in PlaceQueries, outcome \in GeocodeOutcomes :
          (/\ GeocodeRespond(q, outcome)
           /\ lastSearch # Null
           /\ lastSearch.query # q
           /\ groundTarget # Null
           /\ groundTarget.query = lastSearch.query)
              => /\ groundTarget' = groundTarget
                 /\ intercepts' = intercepts]_vars

\* the scanned entries that come after one whose propagation throws at t
AfterThrower(t) ==
    {k \in 1..Len(scanSubset) :
        \E j \in 1..(k - 1) :
            /\ satrecOf(scanSubset[j]) # Null
            /\ propagate(satrecOf(scanSubset[j]), t).threw}

\* C28: a frame that refreshes the UI while the propagation of the selected
\* object yields no position or throws still publishes the snapshot of that
\* object for the clock's instant, with its age label and a null position,
\* and still runs the scan cycle that is due; a scan cycle in which the
\* propagation of one object throws still lists the qualifying objects that
\* come after it.
C28_FailureNeverAbortsTick ==
    [][\A dt \in TickSeconds :
          Tick(dt) =>
              /\ (/\ selectedSat # Null
                  /\ satrecOf(selectedSat) # Null
                  /\ now' - lastTickTime > UI_REFRESH_MS \div 1000
                  /\ ~propagate(satrecOf(selectedSat), clockTime').position)
                     => /\ selectedSatData' # Null
                        /\ selectedSatData'.satId = selectedSat.id
                        /\ selectedSatData'.at = clockTime'
                        /\ selectedSatData'.position = FALSE
                        /\ selectedSatData'.tleAgeLabel
                               = tleAgeLabel(Num(clockTime'
                                                 - satrecOf(selectedSat).rec.jdsatepoch.v))
                        /\ (groundTarget # Null
                            /\ now' - lastScannerCheck > SCAN_INTERVAL_MS \div 1000)
                               => lastScannerCheck' = now'
              /\ (groundTarget # Null /\ now' - lastScannerCheck > SCAN_INTERVAL_MS \div 1000)
                     => \A k \in Qualifying(clockTime') \cap AfterThrower(clockTime') :
                            \E j \in 1..Len(intercepts') : intercepts'[j].id = scanSubset[k].id]_vars

\* the run got an OK response whose body holds the reference record
AcceptedDownload(run) ==
    /\ run.response # Null
    /\ responseOk(run.response.status)
    /\ run.data # Null
    /\ includesReference(run.data.text)

\* C29: a step of the download script changes the output file only when
\* the response was OK and the body holds the ISS reference record; a run
\* that ends in any other case (HTTP error, network error, body without the
\* reference record) has left the file as it was and exits with a non-zero
\* code.
C29_WritesOnlyCheckedData ==
    [][/\ outputFile' # outputFile => AcceptedDownload(script')
       /\ (script'.pc = "exited" /\ script.pc # "exited" /\ ~AcceptedDownload(script'))
              => /\ outputFile' = outputFile
                 /\ script'.exitCode # 0]_vars

\* a run that read an OK response without the reference record over an
\* existing file and has exited
C29_Witness ==
    /\ script.pc = "exited"
    /\ script.response # Null
    /\ responseOk(script.response.status)
    /\ script.data # Null
    /\ script.data.text = <<"<html>", "ISS DEB">>
    /\ outputFile = [exists |-> TRUE, data |-> <<"ISS (ZARYA)">>]
    /\ script.exitCode = 1

\* C30: a held orbit path, in the state or in the ref, was sampled for the
\* object that is selected now; after selecting B, no path of an object
\* selected before is held, whether or not a record exists for B.
C30_HeldPathIsOfSelection ==
    \A path \in {selectedSatPath, selectedSatPathRef} :
        path # Null => (selectedSat # Null /\ path.satId = selectedSat.id)

\* C31: the published telemetry snapshot describes the current selection:
\* it is null while nothing is selected, and while an object is selected a
\* published snapshot carries that object's id, so that selecting B after A
\* never leaves A's snapshot published.
C31_SnapshotIsOfSelection ==
    /\ selectedSat = Null => selectedSatData = Null
    /\ (selectedSat # Null /\ selectedSatData # Null)
           => selectedSatData.satId = selectedSat.id

\* C32: the follow flag is set only while an object is selected, and once
\* the effects of a filter change have run the selected object is in the
\* filtered list.
C32_FollowOnlyWhileSelected ==
    isTracked => /\ selectedSat # Null
                 /\ ~effectPending => InList(filteredSatellites, selectedSat)

\* BRAVO followed with the name filter set to it and a ground target placed
C32_Witness ==
    /\ isTracked
    /\ ~effectPending
    /\ selectedSat # Null
    /\ selectedSat.id = 3
    /\ searchTerm = "BRAVO"
    /\ groundTarget # Null

\* C33: the UI's paused flag is the negation of the clock's running flag
\* and the UI's multiplier is the clock's multiplier, in every state.
C33_UiMirrorsClock ==
    /\ isPaused = ~shouldAnimate
    /\ multiplier = clockMultiplier

\* C34: while an object is selected with its elements in range and the
\* clock running, the clock's instant is within the four hours sampled on
\* either side of the centre of the held path.
C34_ClockInsideHeldWindow ==
    (/\ selectedSat # Null
     /\ ~isTleOutOfRange
     /\ shouldAnimate
     /\ selectedSatPath # Null
     /\ selectedSatPath.satId = selectedSat.id)
        => /\ clockTime - selectedSatPath.center <= HISTORY_MINUTES * 60
           /\ selectedSatPath.center - clockTime <= HISTORY_MINUTES * 60

\* the panel's band that stands for a label of updateInfoPanel
BandOfLabel(label) ==
    CASE label = "FRESH" -> "FRESH"
      [] label = "OK" -> "STABLE"
      [] label = "OLD" -> "STALE"
      [] OTHER -> "OLD"

\* C35: the band the telemetry panel shows for a published snapshot, taken
\* from the age rounded to two decimals, is the band of the snapshot's
\* label, taken from the unrounded age: FRESH with FRESH, STABLE with OK,
\* STALE with OLD, OLD with VERY OLD.
C35_PanelBandIsLabel ==
    selectedSatData # Null
        => panelBand(selectedSatData) = BandOfLabel(selectedSatData.tleAgeLabel)

\* C36: every entry of the intercept list a scan cycle sets is an object of
\* the filtered list of that cycle, also when the filter matches no object.
C36_InterceptsAreFiltered ==
    [][\A dt \in SlowFrames :
          (Tick(dt) /\ groundTarget # Null
                    /\ now' - lastScannerCheck > SCAN_INTERVAL_MS \div 1000)
              => \A j \in 1..Len(intercepts') :
                     \E k \in 1..Len(filteredSatellites) :
                         filteredSatellites[k].id = intercepts'[j].id]_vars

\* C37: selectSatelliteById with an id that no entry of the catalog has
\* leaves the selection, the held path, the out-of-range flag, the warning,
\* the follow flag and the published snapshot as they were.
C37_UnknownIdChangesNothing ==
    [][\A satId \in AllIds :
          (SelectById(satId) /\ find(satellites, satId) = Null)
              => UNCHANGED <<selectedSat, selectedSatPath, selectedSatPathRef,
                             isTleOutOfRange, tleWarning, isTracked, selectedSatData>>]_vars

\* BRAVO selected, followed, with its path and snapshot held, in a catalog
\* that has no entry with id 6: the state a call with id 6 is made in
C37_Witness ==
    /\ alive
    /\ ~effectPending
    /\ find(satellites, 6) = Null
    /\ selectedSat # Null
    /\ selectedSat.id = 3
    /\ isTracked
    /\ selectedSatPath # Null
    /\ selectedSatData # Null

\* C38: a load that completes after the component was torn down leaves the
\* catalog and the filtered list as they were; a load that completes while
\* it is mounted sets the catalog to what the loader resolved to: the
\* records of the served file, none for an empty file.
C38_LoadRespectsTeardown ==
    [][LoadThen =>
          IF alive
          THEN /\ satellites' = fetchResult
               /\ file.response = "ok" => Triples(satellites') = CompleteBlocks(blocks)
               /\ (file.response = "ok" /\ blocks = <<>>) => satellites' = <<>>
          ELSE UNCHANGED <<satellites, filteredSatellites>>]_vars

\* a load of two records that completed after the teardown
C38_Witness ==
    /\ fetchPc = "delivered"
    /\ ~alive
    /\ Len(fetchResult) = 2
    /\ satellites = <<>>

====
